---- MODULE Spec2Model ----
(***************************************************************************)
(* State-machine model of the trading-flow core of aipha:                  *)
(*   - PotentialCaptureEngine.label_events  (triple-barrier labeler)        *)
(*   - AccumulationZoneDetector.detect      (sequential zone scan)          *)
(*   - KeyCandleDetector.detect             (vectorised key-candle scan)    *)
(*                                                                         *)
(* Conventions.  Bar positions are 0-based as in pandas (iloc).  Prices    *)
(* and volumes are integers.  A real number that arises from a division    *)
(* (ATR, drawdown_threshold, quantiles) is a pair <<num, den>> with        *)
(* den > 0; <<0, 0>> stands for NaN.  Comparisons between reals are made   *)
(* by cross-multiplication, so they are exact.                             *)
(***************************************************************************)
EXTENDS Integers, Sequences, FiniteSets, TLC

\* ------------------------------------------------------------------ bounds
MaxBars == 4
MaxEvents == 2
MaxCalls == 2
MaxZoneBars == 5
MaxKeyBars == 5
MaxSigBars == 4
MaxLongZone == 52
MaxTrendBars == 4
MaxStoreCalls == 3
MaxOpenTime == 3

\* ------------------------------------------------------------------- state
\* PotentialCaptureEngine: engine state, the caller's arguments, and the
\* locals of label_events.
VARIABLES
    config,        \* self.config of the engine
    heap,          \* the table objects: "prices" (the caller's) and "df" (a copy)
    df,            \* which object the local name df refers to ("none" before a call)
    t_events,      \* the caller's event series (a sequence of timestamps)
    valid_events,  \* local: deduplicated events present in the bar index
    labels,        \* local: the pd.Series being built, timestamp -> label
    pc,            \* position in label_events
    k,             \* local: 1-based position of event_idx in valid_events
    pos,           \* local: iloc position of the row of price_path being visited
    path_end_loc,  \* local
    label_found,   \* local
    returned       \* the results returned by the calls so far

lvars == <<config, heap, df, t_events, valid_events, labels, pc, k, pos,
           path_end_loc, label_found, returned>>

\* AccumulationZoneDetector: configuration, the caller's table, and the
\* locals of detect.
VARIABLES
    z_config,         \* self.config of the detector
    z_df,             \* the caller's table
    df_res,           \* local: the copy detect works on and returns
    in_zone,          \* local
    zone_start_idx,   \* local
    zone_id_counter,  \* local
    zone_high,        \* local
    zone_low,         \* local
    zi,               \* local: the loop variable i
    z_pc              \* position in detect

zvars == <<z_config, z_df, df_res, in_zone, zone_start_idx, zone_id_counter,
           zone_high, zone_low, zi, z_pc>>

\* KeyCandleDetector.detect: its arguments and locals.
VARIABLES
    k_df,                      \* the caller's table, the object detect writes to
    k_args,                    \* the keyword arguments of the call
    is_potential_key_candle,   \* local: the raw candidates, position -> BOOLEAN
    k_pc                       \* position in detect

kvars == <<k_df, k_args, is_potential_key_candle, k_pc>>

\* A second application of a detector to its own output: the table the first
\* application returned (an empty frame while there was no second application).
VARIABLES
    z_first,   \* AccumulationZoneDetector.detect
    k_first    \* KeyCandleDetector.detect

ivars == <<z_first, k_first>>

\* SignalCombiner: the object's attributes, the caller's table, and the
\* locals of detect.
VARIABLES
    c_self,               \* self.tolerance and self.min_r_squared
    c_df,                 \* the caller's table
    c_res,                \* local df_res: the copy detect works on and returns
    key_candle_indices,   \* local: the index labels of the key candles, ascending
    c_k,                  \* local: 1-based position of idx in key_candle_indices
    c_pc,                 \* position in detect
    c_first               \* the table returned by the first of two applications

cvars == <<c_self, c_df, c_res, key_candle_indices, c_k, c_pc, c_first>>

\* SignalScorer.score: the caller's table and the locals.
VARIABLES
    s_df,      \* the caller's table
    s_res,     \* local df_res
    signals,   \* local: the index labels of the triple coincidences
    s_k,       \* local: 1-based position of idx in signals
    s_pc       \* position in score

svars == <<s_df, s_res, signals, s_k, s_pc>>

\* TrendDetector.detect: the caller's table and the locals.
VARIABLES
    t_df,            \* the caller's table
    t_res,           \* local df_res
    zigzag_series,   \* local: the positions at which the zigzag indicator has a value
    pivot_indices,   \* local: the sorted pivots, first and last bar included
    t_i,             \* local: the loop variable i
    t_pc,            \* position in detect
    t_ret            \* which object detect returned: "df", "df_res" or "none"

tvars == <<t_df, t_res, zigzag_series, pivot_indices, t_i, t_pc, t_ret>>

\* The DuckDB file: the klines table, shared by HistoricalDataProcessor (which
\* writes it) and SignalOrchestrator (which reads it).
VARIABLES
    db_tables,   \* the names of the tables that exist in the file
    klines       \* the rows of the table klines

\* SignalOrchestrator.generate_signals: arguments, locals and result.
VARIABLES
    o_args,    \* symbol and interval of the call
    o_pc,      \* position in generate_signals
    o_ret      \* the table returned (an empty frame before the return)

ovars == <<db_tables, klines, o_args, o_pc, o_ret>>

\* HistoricalDataProcessor.process_and_store_files: argument and locals.
VARIABLES
    file_paths,   \* the argument of the call in progress
    klines_dfs,   \* local: the parsed klines frames
    p_pc,         \* position in process_and_store_files
    p_done,       \* the file lists of the calls completed so far
    rejects_inner_conflict   \* the database engine in use refuses an INSERT
                             \* whose frame holds one key twice

pvars == <<file_paths, klines_dfs, p_pc, p_done, rejects_inner_conflict>>

nvars == <<ivars, cvars, svars, tvars, ovars, pvars>>

vars == <<lvars, zvars, kvars, nvars>>

\* ----------------------------------------------------------------- helpers
Abs(x) == IF x < 0 THEN -x ELSE x
Max2(a, b) == IF a >= b THEN a ELSE b
Min2(a, b) == IF a <= b THEN a ELSE b

RECURSIVE Pow(_, _)
Pow(b, e) == IF e = 0 THEN 1 ELSE b * Pow(b, e - 1)

NaN == <<0, 0>>
IsNaN(r) == r[2] = 0

Range(s) == {s[i] : i \in DOMAIN s}

\* sorted(xs): ascending insertion sort of a sequence of integers
RECURSIVE InsertSorted(_, _)
InsertSorted(x, s) ==
    IF s = <<>> THEN <<x>>
    ELSE IF x <= Head(s) THEN <<x>> \o s
    ELSE <<Head(s)>> \o InsertSorted(x, Tail(s))

RECURSIVE Sorted(_)
Sorted(s) == IF s = <<>> THEN <<>> ELSE InsertSorted(Head(s), Sorted(Tail(s)))

\* -------------------------------------------------------------- bar tables
\* A table is [cols |-> set of column names, index |-> 0..n-1 -> timestamp,
\*             rows |-> 0..n-1 -> bar record].
Bar(h, l, c) == [high |-> h, low |-> l, close |-> c]

NRows(t) == Cardinality(DOMAIN t.rows)

\* The DatetimeIndex of a table of n bars: position p carries timestamp p + 1.
\* Timestamp 0 is a timestamp that is in no index, -1 stands for NaT.
NaT == -1
MakeIndex(n) == [p \in 0 .. n - 1 |-> p + 1]

InIndex(t, ts) == \E p \in DOMAIN t.index : t.index[p] = ts
GetLoc(t, ts) == CHOOSE p \in DOMAIN t.index : t.index[p] = ts

\* ----------------------------------------------------- indicator: ta.atr
\* True range of bar i >= 1 (bar 0 has no previous close: NaN).
TrueRange(rows, i) ==
    LET prev_close == rows[i - 1].close
    IN  Max2(rows[i].high - rows[i].low,
             Max2(Abs(rows[i].high - prev_close), Abs(prev_close - rows[i].low)))

\* Weight of true range j in the Wilder average (alpha = 1/n) at bar i,
\* scaled by n^(i-1) to stay in the integers: (1-alpha)^(i-j) = ((n-1)/n)^(i-j).
RmaWeight(n, i, j) == Pow(n - 1, i - j) * Pow(n, j - 1)

RECURSIVE WSum(_, _, _, _, _)
WSum(rows, n, i, j, withTR) ==
    IF j > i THEN 0
    ELSE RmaWeight(n, i, j) * (IF withTR THEN TrueRange(rows, j) ELSE 1)
         + WSum(rows, n, i, j + 1, withTR)

\* ta.atr(high, low, close, length=n) at position i: the exponentially weighted
\* mean of the true ranges 1..i, undefined until n true ranges are available.
ATR(rows, n, i) ==
    IF i < n THEN NaN
    ELSE <<WSum(rows, n, i, 1, TRUE), WSum(rows, n, i, 1, FALSE)>>

\* ============================================================ the labeler
NoTable == [cols |-> {}, index |-> <<>>, rows |-> <<>>]
NoLabels == <<>>

\* __init__: the kwargs merged with the defaults, profit_factors sorted.
EngineConfig(pfs, slf, tl, dd, ap) ==
    [profit_factors |-> Sorted(pfs), stop_loss_factor |-> slf, time_limit |-> tl,
     drawdown_threshold |-> dd, atr_period |-> ap]

\* df = prices.copy(): a new table object.
CopyTarget(src) == "df"

\* df['atr'] = ta.atr(...): the column is added to the object df names.  Its
\* values are ATR(rows, atr_period, i), computed where they are read.
WithAtrColumn(t) == [t EXCEPT !.cols = @ \cup {"atr"}]

\* t_events.dropna().unique(): first occurrences, in order of appearance.
RECURSIVE DropNaUnique(_, _)
DropNaUnique(s, seen) ==
    IF s = <<>> THEN <<>>
    ELSE IF Head(s) = NaT \/ Head(s) \in seen THEN DropNaUnique(Tail(s), seen)
    ELSE <<Head(s)>> \o DropNaUnique(Tail(s), seen \cup {Head(s)})

\* pd.Series(valid_events)[pd.Series(valid_events).isin(df.index)]
RECURSIVE FilterInIndex(_, _)
FilterInIndex(s, t) ==
    IF s = <<>> THEN <<>>
    ELSE IF InIndex(t, Head(s)) THEN <<Head(s)>> \o FilterInIndex(Tail(s), t)
    ELSE FilterInIndex(Tail(s), t)

\* mutant: dropna() without unique()
RECURSIVE DropNa(_)
DropNa(s) ==
    IF s = <<>> THEN <<>>
    ELSE IF Head(s) = NaT THEN DropNa(Tail(s)) ELSE <<Head(s)>> \o DropNa(Tail(s))

ValidEventsWithDuplicates(ev, t) == FilterInIndex(DropNa(ev), t)

ValidEvents(ev, t) == FilterInIndex(DropNaUnique(ev, {}), t)

\* A pd.Series with a timestamp index: a sequence of entries [ts, val].
\* labels = pd.Series(0, index=valid_events)
InitialLabels(ve) == [i \in 1 .. Len(ve) |-> [ts |-> ve[i], val |-> 0]]

\* labels.loc[ts] = v: every entry whose index is ts
SetLabel(ser, ts, v) ==
    [i \in 1 .. Len(ser) |-> IF ser[i].ts = ts THEN [ser[i] EXCEPT !.val = v] ELSE ser[i]]

DF == heap[df]
event_idx == valid_events[k]
event_loc == GetLoc(DF, event_idx)
entry_price == DF.rows[event_loc].close
atr_at_event == ATR(DF.rows, config.atr_period, event_loc)

\* if pd.isna(atr_at_event) or atr_at_event == 0: continue
SkipsEvent(atr) == IsNaN(atr) \/ atr[1] = 0

\* row['high'] >= tp_levels[level], tp_levels[level] = entry + atr * pf[level]
ReachesTP(row, entry, atr, pf) == row.high * atr[2] >= entry * atr[2] + atr[1] * pf

\* for level, tp_price in sorted(tp_levels.items(), reverse=True): first hit
RECURSIVE ScanTP(_, _, _, _, _)
ScanTP(row, entry, atr, pfs, level) ==
    IF level = 0 THEN 0
    ELSE IF ReachesTP(row, entry, atr, pfs[level]) THEN level
    ELSE ScanTP(row, entry, atr, pfs, level - 1)

\* mutant: the levels scanned from the lowest up
RECURSIVE ScanTPUp(_, _, _, _, _)
ScanTPUp(row, entry, atr, pfs, level) ==
    IF level > Len(pfs) THEN 0
    ELSE IF ReachesTP(row, entry, atr, pfs[level]) THEN level
    ELSE ScanTPUp(row, entry, atr, pfs, level + 1)

TpLevelHitLowestFirst(row, entry, atr, pfs) == ScanTPUp(row, entry, atr, pfs, 1)

TpLevelHit(row, entry, atr, pfs) == ScanTP(row, entry, atr, pfs, Len(pfs))

\* mutant: a low equal to the stop level is not a stop
ReachesSLBelowOnly(row, entry, atr, slf) ==
    row.low * atr[2] < entry * atr[2] - atr[1] * slf

\* row['low'] <= sl_level, sl_level = entry - atr * stop_loss_factor
ReachesSL(row, entry, atr, slf) == row.low * atr[2] <= entry * atr[2] - atr[1] * slf

\* mutant: the peak taken over the bars after the event bar only
MaxHighAfterEventBar(rows, from, to) ==
    IF from = to THEN rows[from].high
    ELSE CHOOSE h \in {rows[i].high : i \in from + 1 .. to} :
            \A i \in from + 1 .. to : rows[i].high <= h

\* df.loc[event_idx:t_step]['high'].max()
RECURSIVE MaxHigh(_, _, _)
MaxHigh(rows, from, to) ==
    IF from = to THEN rows[from].high
    ELSE Max2(rows[from].high, MaxHigh(rows, from + 1, to))

\* mutant: drawdown > drawdown_threshold
StopLossLabelStrict(highest, low, entry, dd) ==
    LET unrealized_gain == highest - entry
        filtered == IF unrealized_gain > 0
                    THEN (highest - low) * dd[2] > dd[1] * unrealized_gain
                    ELSE 0 > dd[1]
    IN  IF filtered THEN 0 ELSE -1

\* The drawdown filter: the label of a stop-loss exit.
StopLossLabel(highest, low, entry, dd) ==
    LET unrealized_gain == highest - entry
        \* drawdown >= drawdown_threshold, drawdown = 0 when there was no gain
        filtered == IF unrealized_gain > 0
                    THEN (highest - low) * dd[2] >= dd[1] * unrealized_gain
                    ELSE 0 >= dd[1]
    IN  IF filtered THEN 0 ELSE -1

\* path_end_loc = min(loc + time_limit, len(df) - 1)
PathEndLoc(loc, tl, n) == Min2(loc + tl, n - 1)

\* mutant: the walk starts on the event bar
PathStartAtEventBar(loc) == loc

\* price_path = df.iloc[loc + 1 : path_end_loc + 1]: its first row
PathStart(loc) == loc + 1

\* mutant: label_found set once, before the loop over the events
LabelFoundCarriedOver(lf) == lf

\* label_found = False, once per event
LabelFoundAtEventStart(lf) == FALSE

RequiredCols == {"high", "low", "close"}

\* label_events(prices, t_events), up to and including labels = pd.Series(0, ...)
Call ==
    /\ pc \in {"idle", "done"}
    /\ Len(returned) < MaxCalls
    /\ RequiredCols \subseteq heap["prices"].cols
    /\ LET target == CopyTarget("prices")
           copy == WithAtrColumn(heap["prices"])
           ve == ValidEvents(t_events, copy)
       IN  /\ df' = target
           /\ heap' = [heap EXCEPT ![target] = copy]
           /\ valid_events' = ve
           /\ labels' = InitialLabels(ve)
    /\ k' = 1
    /\ pos' = 0
    /\ path_end_loc' = 0
    /\ label_found' = FALSE
    /\ pc' = "loop"
    /\ UNCHANGED <<config, t_events, returned>>
    /\ UNCHANGED <<zvars, kvars, nvars>>

\* raise ValueError when a required column is missing
CallRaises ==
    /\ pc = "idle"
    /\ ~(RequiredCols \subseteq heap["prices"].cols)
    /\ pc' = "raised"
    /\ UNCHANGED <<config, heap, df, t_events, valid_events, labels, k, pos,
                   path_end_loc, label_found, returned>>
    /\ UNCHANGED <<zvars, kvars, nvars>>

\* the `continue` of an event whose ATR is undefined or zero
SkipEvent ==
    /\ pc = "loop"
    /\ k <= Len(valid_events)
    /\ SkipsEvent(atr_at_event)
    /\ k' = k + 1
    /\ UNCHANGED <<config, heap, df, t_events, valid_events, labels, pc, pos,
                   path_end_loc, label_found, returned>>
    /\ UNCHANGED <<zvars, kvars, nvars>>

\* barriers and price_path of the next event
BeginWalk ==
    /\ pc = "loop"
    /\ k <= Len(valid_events)
    /\ ~SkipsEvent(atr_at_event)
    /\ path_end_loc' = PathEndLoc(event_loc, config.time_limit, NRows(DF))
    /\ pos' = PathStart(event_loc)
    /\ label_found' = LabelFoundAtEventStart(label_found)
    /\ pc' = "walk"
    /\ UNCHANGED <<config, heap, df, t_events, valid_events, labels, k, returned>>
    /\ UNCHANGED <<zvars, kvars, nvars>>

cur_row == DF.rows[pos]
level_hit == TpLevelHit(cur_row, entry_price, atr_at_event, config.profit_factors)
found_after_tp == label_found \/ level_hit > 0

\* a row whose take-profit loop ends with label_found set: both loops break
WalkTakeProfit ==
    /\ pc = "walk"
    /\ pos <= path_end_loc
    /\ found_after_tp
    /\ labels' = IF level_hit > 0 THEN SetLabel(labels, event_idx, level_hit)
                 ELSE labels
    /\ label_found' = TRUE
    /\ k' = k + 1
    /\ pc' = "loop"
    /\ UNCHANGED <<config, heap, df, t_events, valid_events, pos, path_end_loc,
                   returned>>
    /\ UNCHANGED <<zvars, kvars, nvars>>

\* a row that reaches no take-profit and touches the stop level
WalkStopLoss ==
    /\ pc = "walk"
    /\ pos <= path_end_loc
    /\ ~found_after_tp
    /\ ReachesSL(cur_row, entry_price, atr_at_event, config.stop_loss_factor)
    /\ LET highest_before_sl == MaxHigh(DF.rows, event_loc, pos)
       IN  labels' = SetLabel(labels, event_idx,
                              StopLossLabel(highest_before_sl, cur_row.low, entry_price,
                                            config.drawdown_threshold))
    /\ label_found' = TRUE
    /\ k' = k + 1
    /\ pc' = "loop"
    /\ UNCHANGED <<config, heap, df, t_events, valid_events, pos, path_end_loc,
                   returned>>
    /\ UNCHANGED <<zvars, kvars, nvars>>

\* a row that touches no barrier: the walk moves on
WalkAdvance ==
    /\ pc = "walk"
    /\ pos <= path_end_loc
    /\ ~found_after_tp
    /\ ~ReachesSL(cur_row, entry_price, atr_at_event, config.stop_loss_factor)
    /\ pos' = pos + 1
    /\ UNCHANGED <<config, heap, df, t_events, valid_events, labels, pc, k,
                   path_end_loc, label_found, returned>>
    /\ UNCHANGED <<zvars, kvars, nvars>>

\* price_path exhausted: the label keeps its initial 0
WalkExhausted ==
    /\ pc = "walk"
    /\ pos > path_end_loc
    /\ k' = k + 1
    /\ pc' = "loop"
    /\ UNCHANGED <<config, heap, df, t_events, valid_events, labels, pos,
                   path_end_loc, label_found, returned>>
    /\ UNCHANGED <<zvars, kvars, nvars>>

\* return labels
Return ==
    /\ pc = "loop"
    /\ k > Len(valid_events)
    /\ returned' = Append(returned, labels)
    /\ pc' = "done"
    /\ UNCHANGED <<config, heap, df, t_events, valid_events, labels, k, pos,
                   path_end_loc, label_found>>
    /\ UNCHANGED <<zvars, kvars, nvars>>

LabelerNext ==
    \/ Call
    \/ CallRaises
    \/ SkipEvent
    \/ BeginWalk
    \/ WalkTakeProfit
    \/ WalkStopLoss
    \/ WalkAdvance
    \/ WalkExhausted
    \/ Return

\* ------------------------------------------------------- labeler: inputs
\* The bars the bounded inputs are built from.
BarMenu ==
    { Bar(11, 9, 10),    \* quiet bar
      Bar(10, 10, 10),   \* flat bar: zero range
      Bar(12, 8, 11),    \* wide bar
      Bar(14, 10, 10),   \* spike up
      Bar(10, 8, 10) }   \* drop, high not above the close

PriceCols == {"open", "high", "low", "close"}

\* Bar 0 only supplies the previous close of bar 1: it is the quiet bar.
BoundedTables ==
    { [cols |-> PriceCols, index |-> MakeIndex(MaxBars),
       rows |-> [p \in 0 .. MaxBars - 1 |-> IF p = 0 THEN Bar(11, 9, 10) ELSE r[p]]] :
        r \in [1 .. MaxBars - 1 -> BarMenu] }

\* drawdown_threshold values: 0, 1/2, 1 (the documented range) and 4
Thresholds == { <<0, 1>>, <<1, 2>>, <<1, 1>>, <<4, 1>> }

WalkConfigs ==
    { EngineConfig(pfs, 1, tl, dd, ap) :
        pfs \in { <<1, 2>>, <<2, 1>> }, tl \in {1, 2}, dd \in Thresholds, ap \in {1, 2} }

\* Event series of up to MaxEvents entries: timestamps of the index, one
\* timestamp (0) that is not in it, and NaT.
EventValues == {NaT, 0} \cup (1 .. MaxBars)

RECURSIVE SeqsUpTo(_, _)
SeqsUpTo(S, n) ==
    IF n = 0 THEN { <<>> }
    ELSE LET shorter == SeqsUpTo(S, n - 1)
         IN  shorter \cup { Append(s, x) : s \in { q \in shorter : Len(q) = n - 1 }, x \in S }

\* The fixture of test_potential_capture_engine.py: 100 bars
\* open=100, high=105, low=95, close=100, with a scenario's modifications.
FixtureRows(mods) ==
    [p \in 0 .. 99 |-> IF p \in DOMAIN mods THEN mods[p] ELSE Bar(105, 95, 100)]

Scenarios ==
    [ tp1   |-> (15 :> Bar(111, 95, 100)),
      time  |-> <<>>,
      clean |-> (10 :> Bar(100, 95, 100)) @@ (11 :> Bar(100, 95, 100))
                @@ (12 :> Bar(100, 95, 100)) @@ (15 :> Bar(100, 89, 100)),
      dd    |-> (15 :> Bar(109, 95, 100)) @@ (16 :> Bar(105, 89, 100)) ]

ScenarioTable(name) ==
    [cols |-> PriceCols, index |-> MakeIndex(100), rows |-> FixtureRows(Scenarios[name])]

ScenarioConfig == EngineConfig(<<1, 2>>, 1, 20, <<8, 10>>, 14)

LabelerStart(cfg, prices, events) ==
    /\ config = cfg
    /\ heap = [o \in {"prices", "df"} |-> IF o = "prices" THEN prices ELSE NoTable]
    /\ df = "none"
    /\ t_events = events
    /\ valid_events = <<>>
    /\ labels = NoLabels
    /\ pc = "idle"
    /\ k = 0
    /\ pos = 0
    /\ path_end_loc = 0
    /\ label_found = FALSE
    /\ returned = <<>>

\* one event, every bar table, every configuration
InitWalk ==
    \E cfg \in WalkConfigs, t \in BoundedTables, e \in 1 .. MaxBars :
        LabelerStart(cfg, t, <<e>>)

\* every event series, a few tables and configurations
InitEvents ==
    \E ev \in SeqsUpTo(EventValues, MaxEvents),
       b1 \in {Bar(11, 9, 10), Bar(10, 8, 10)}, b2 \in {Bar(10, 8, 10), Bar(12, 8, 11)},
       b3 \in {Bar(11, 9, 10), Bar(12, 8, 11)} :
        LabelerStart(EngineConfig(<<1, 2>>, 1, 1, <<1, 2>>, 1),
                     [cols |-> PriceCols, index |-> MakeIndex(MaxBars),
                      rows |-> [p \in 0 .. MaxBars - 1 |->
                                  IF p = 0 THEN Bar(11, 9, 10)
                                  ELSE IF p = 1 THEN b1 ELSE IF p = 2 THEN b2 ELSE b3]],
                     ev)

\* the test scenarios
InitScenario ==
    \E name \in DOMAIN Scenarios :
        LabelerStart(ScenarioConfig, ScenarioTable(name), <<11>>)

\* a table without one of the required columns
InitMalformed ==
    LabelerStart(EngineConfig(<<1, 2>>, 1, 1, <<1, 2>>, 1),
                 [cols |-> {"open", "high", "low"}, index |-> MakeIndex(MaxBars),
                  rows |-> [p \in 0 .. MaxBars - 1 |-> Bar(11, 9, 10)]],
                 <<1>>)

LabelerInit == InitWalk \/ InitEvents \/ InitScenario \/ InitMalformed

\* ====================================================== the zone detector
\* AccumulationZoneDetector.detect: the forward scan.
NA == -1

VBar(h, l, c, v) == [high |-> h, low |-> l, close |-> c, volume |-> v]

ZoneConfig(ap, am, mzb, vmp, vt) ==
    [atr_period |-> ap, atr_multiplier |-> am, min_zone_bars |-> mzb,
     volume_ma_period |-> vmp, volume_threshold |-> vt]

\* df['volume'].rolling(window=w, min_periods=w).mean() at position p, as
\* <<sum of the window, w>>; NaN until the window is full.
RECURSIVE VolumeSum(_, _, _)
VolumeSum(rows, from, to) ==
    IF from > to THEN 0 ELSE rows[from].volume + VolumeSum(rows, from + 1, to)

VolumeMA(rows, w, p) ==
    IF p < w - 1 THEN NaN ELSE <<VolumeSum(rows, p - w + 1, p), w>>

\* mutant: zone_id initialised to 0 instead of pd.NA
ZoneResultInitZeroId(t) ==
    [cols |-> t.cols \cup {"atr", "volume_ma", "in_accumulation_zone", "zone_id"},
     rows |-> [p \in DOMAIN t.rows |->
                 [high |-> t.rows[p].high, low |-> t.rows[p].low,
                  close |-> t.rows[p].close, volume |-> t.rows[p].volume,
                  in_accumulation_zone |-> FALSE, zone_id |-> 0]]]

\* df_res = df.copy() with the columns in_accumulation_zone = False and
\* zone_id = pd.NA added (atr and volume_ma are computed where they are read)
ZoneResultInit(t) ==
    [cols |-> t.cols \cup {"atr", "volume_ma", "in_accumulation_zone", "zone_id"},
     rows |-> [p \in DOMAIN t.rows |->
                 [high |-> t.rows[p].high, low |-> t.rows[p].low,
                  close |-> t.rows[p].close, volume |-> t.rows[p].volume,
                  in_accumulation_zone |-> FALSE, zone_id |-> NA]]]

\* mutant: the closing bar marked with the zone it closes
MarkZoneThroughNext(t, a, b, id) ==
    [t EXCEPT !.rows = [p \in DOMAIN t.rows |->
        IF a <= p /\ p <= b + 1
        THEN [t.rows[p] EXCEPT !.in_accumulation_zone = TRUE, !.zone_id = id]
        ELSE t.rows[p]]]

\* df_res.loc[a:b, 'in_accumulation_zone'] = True; df_res.loc[a:b, 'zone_id'] = id
MarkZone(t, a, b, id) ==
    [t EXCEPT !.rows = [p \in DOMAIN t.rows |->
        IF a <= p /\ p <= b
        THEN [t.rows[p] EXCEPT !.in_accumulation_zone = TRUE, !.zone_id = id]
        ELSE t.rows[p]]]

\* mutant: a zone of exactly min_zone_bars bars rejected
ZoneLongEnoughStrict(start, end, mzb) == end - start + 1 > mzb

\* mutant: the zone length counted one too long
ZoneLongEnoughOffByOne(start, end, mzb) == end - start + 2 >= mzb

\* (zone_end_idx - zone_start_idx + 1) >= min_zone_bars
ZoneLongEnough(start, end, mzb) == end - start + 1 >= mzb

\* candle['volume'] > candle['volume_ma'] * volume_threshold
VolumeConditionMet(v, ma, vt) == v * ma[2] * vt[2] > ma[1] * vt[1]

\* zone_height > atr[zone_start] * atr_multiplier
HeightExceeds(height, atr, am) == height * atr[2] * am[2] > atr[1] * am[1]

z_candle == df_res.rows[zi]
z_atr(p) == ATR(df_res.rows, z_config.atr_period, p)
z_volume_ma(p) == VolumeMA(df_res.rows, z_config.volume_ma_period, p)
z_ready == ~IsNaN(z_atr(zi)) /\ ~IsNaN(z_volume_ma(zi))
volume_condition_met ==
    VolumeConditionMet(z_candle.volume, z_volume_ma(zi), z_config.volume_threshold)
current_high == Max2(zone_high, z_candle.high)
current_low == Min2(zone_low, z_candle.low)
\* mutant: the tolerance recomputed from the ATR of the current bar
zone_breaks_at_current_atr ==
    HeightExceeds(current_high - current_low, z_atr(zi), z_config.atr_multiplier)

zone_breaks ==
    HeightExceeds(current_high - current_low, z_atr(zone_start_idx),
                  z_config.atr_multiplier)

\* mutant: the new zone starts at the bar after the one that qualifies
OpenZoneAtNext(p) ==
    /\ in_zone' = TRUE
    /\ zone_start_idx' = p + 1
    /\ zone_high' = df_res.rows[p].high
    /\ zone_low' = df_res.rows[p].low

\* in_zone = True; zone_start_idx = i; zone_high, zone_low = the candle's
OpenZoneAt(p) ==
    /\ in_zone' = TRUE
    /\ zone_start_idx' = p
    /\ zone_high' = df_res.rows[p].high
    /\ zone_low' = df_res.rows[p].low

\* detect(df) up to the loop
ZoneDetect ==
    /\ z_pc = "idle"
    /\ df_res' = ZoneResultInit(z_df)
    /\ in_zone' = FALSE
    /\ zone_start_idx' = -1
    /\ zone_id_counter' = 0
    /\ zone_high' = 0
    /\ zone_low' = 0
    /\ zi' = 0
    /\ z_pc' = "scan"
    /\ UNCHANGED <<z_config, z_df>>
    /\ UNCHANGED <<lvars, kvars, nvars>>

\* an iteration whose indicators are not ready: continue
ZoneSkipBar ==
    /\ z_pc = "scan"
    /\ zi < NRows(df_res)
    /\ ~z_ready
    /\ zi' = zi + 1
    /\ UNCHANGED <<z_config, z_df, df_res, in_zone, zone_start_idx, zone_id_counter,
                   zone_high, zone_low, z_pc>>
    /\ UNCHANGED <<lvars, kvars, nvars>>

\* an iteration in an open zone that the candle breaks: the zone ends at i - 1,
\* and the candle may open a new zone at i
ZoneBreakBar ==
    /\ z_pc = "scan"
    /\ zi < NRows(df_res)
    /\ z_ready
    /\ in_zone
    /\ zone_breaks
    /\ LET zone_end_idx == zi - 1
           keep == ZoneLongEnough(zone_start_idx, zone_end_idx, z_config.min_zone_bars)
       IN  /\ df_res' = IF keep
                        THEN MarkZone(df_res, zone_start_idx, zone_end_idx, zone_id_counter)
                        ELSE df_res
           /\ zone_id_counter' = IF keep THEN zone_id_counter + 1 ELSE zone_id_counter
    /\ IF volume_condition_met
       THEN OpenZoneAt(zi)
       ELSE /\ in_zone' = FALSE
            /\ zone_start_idx' = -1
            /\ UNCHANGED <<zone_high, zone_low>>
    /\ zi' = zi + 1
    /\ UNCHANGED <<z_config, z_df, z_pc>>
    /\ UNCHANGED <<lvars, kvars, nvars>>

\* an iteration in an open zone that the candle stays in
ZoneExtendBar ==
    /\ z_pc = "scan"
    /\ zi < NRows(df_res)
    /\ z_ready
    /\ in_zone
    /\ ~zone_breaks
    /\ zone_high' = current_high
    /\ zone_low' = current_low
    /\ zi' = zi + 1
    /\ UNCHANGED <<z_config, z_df, df_res, in_zone, zone_start_idx, zone_id_counter,
                   z_pc>>
    /\ UNCHANGED <<lvars, kvars, nvars>>

\* an iteration outside a zone: the candle opens one when its volume surges
ZoneOutsideBar ==
    /\ z_pc = "scan"
    /\ zi < NRows(df_res)
    /\ z_ready
    /\ ~in_zone
    /\ IF volume_condition_met
       THEN OpenZoneAt(zi)
       ELSE UNCHANGED <<in_zone, zone_start_idx, zone_high, zone_low>>
    /\ zi' = zi + 1
    /\ UNCHANGED <<z_config, z_df, df_res, zone_id_counter, z_pc>>
    /\ UNCHANGED <<lvars, kvars, nvars>>

\* after the loop: a zone still open is closed at the last bar; the
\* intermediate columns are dropped and df_res is returned
ZoneFinish ==
    /\ z_pc = "scan"
    /\ zi = NRows(df_res)
    /\ LET last == NRows(df_res) - 1
           marked == IF in_zone /\ ZoneLongEnough(zone_start_idx, last,
                                                   z_config.min_zone_bars)
                     THEN MarkZone(df_res, zone_start_idx, last, zone_id_counter)
                     ELSE df_res
       IN  df_res' = [marked EXCEPT !.cols = @ \ {"atr", "volume_ma"}]
    /\ z_pc' = "done"
    /\ UNCHANGED <<z_config, z_df, in_zone, zone_start_idx, zone_id_counter,
                   zone_high, zone_low, zi>>
    /\ UNCHANGED <<lvars, kvars, nvars>>

ZoneNext ==
    \/ ZoneDetect
    \/ ZoneSkipBar
    \/ ZoneBreakBar
    \/ ZoneExtendBar
    \/ ZoneOutsideBar
    \/ ZoneFinish

\* ---------------------------------------------------- zone detector: inputs
ZoneBarMenu ==
    { VBar(11, 9, 10, 1),     \* narrow, low volume
      VBar(11, 9, 10, 3),     \* narrow, high volume
      VBar(13, 11, 12, 3),    \* shifted up, high volume
      VBar(14, 6, 10, 1) }    \* wide, low volume

ZoneCols == {"open", "high", "low", "close", "volume"}

ZoneTables ==
    { [cols |-> ZoneCols, rows |-> r] : r \in [0 .. MaxZoneBars - 1 -> ZoneBarMenu] }

ZoneConfigs ==
    { ZoneConfig(ap, am, mzb, 2, vt) :
        ap \in {1, 2}, am \in { <<1, 1>>, <<3, 2>> }, mzb \in {2, 3},
        vt \in { <<1, 1>>, <<1, 2>> } }

ZoneStart(cfg, t) ==
    /\ z_config = cfg
    /\ z_df = t
    /\ df_res = [cols |-> {}, rows |-> <<>>]
    /\ in_zone = FALSE
    /\ zone_start_idx = -1
    /\ zone_id_counter = 0
    /\ zone_high = 0
    /\ zone_low = 0
    /\ zi = 0
    /\ z_pc = "idle"

ZoneInit == \E cfg \in ZoneConfigs, t \in ZoneTables : ZoneStart(cfg, t)

\* ================================================= the key-candle detector
\* KeyCandleDetector.detect(df, volume_lookback, volume_percentile_threshold,
\* body_percentile_threshold): the columns are added to df itself, which is
\* also the table returned.

OBar(o, h, l, c, v) == [open |-> o, high |-> h, low |-> l, close |-> c, volume |-> v]

\* df[col] = values: the column is added (or overwritten) in place
SetColumn(t, col, values) ==
    [cols |-> t.cols \cup {col},
     rows |-> [p \in DOMAIN t.rows |-> (col :> values[p]) @@ t.rows[p]]]

\* the volumes of positions from..to, as a sequence
RECURSIVE VolumeWindow(_, _, _)
VolumeWindow(rows, from, to) ==
    IF from > to THEN <<>> ELSE <<rows[from].volume>> \o VolumeWindow(rows, from + 1, to)

\* quantile(q) of a window, linear interpolation between the order statistics
\* around position (n - 1) * q of the sorted window
Quantile(win, q) ==
    LET xs == Sorted(win)
        h == (Len(win) - 1) * q[1]
        lo == h \div q[2]
        r == h % q[2]
    IN  IF r = 0 THEN <<xs[lo + 1] * q[2], q[2]>>
        ELSE <<xs[lo + 1] * q[2] + r * (xs[lo + 2] - xs[lo + 1]), q[2]>>

\* rolling(window=w, min_periods=w).quantile(q) at position p
RollingQuantile(rows, w, q, p) ==
    IF p < w - 1 THEN NaN ELSE Quantile(VolumeWindow(rows, p - w + 1, p), q)

\* ... .shift(1): the value of the previous position, NaN at position 0
VolumeThresholdAt(rows, w, q, p) ==
    IF p = 0 THEN NaN ELSE RollingQuantile(rows, w, q, p - 1)

\* np.where(candle_range > 0, body_size / candle_range, 0)
BodyPercentage(r) ==
    IF r.high - r.low > 0 THEN <<Abs(r.close - r.open), r.high - r.low>> ELSE <<0, 1>>

\* df["volume"] > df["volume_threshold"]: False against NaN
HighVolume(r) ==
    ~IsNaN(r.volume_threshold) /\ r.volume * r.volume_threshold[2] > r.volume_threshold[1]

\* df["body_percentage"] < body_percentile_threshold
IndecisionBody(r, bt) == r.body_percentage[1] * bt[2] < bt[1] * r.body_percentage[2]

\* mutant: a candidate is suppressed when the table already flags the bar
\* before it
IsFirstInGroupOfStoredFlags(cand, p) ==
    ~(p > 0 /\ "is_key_candle" \in k_df.cols /\ k_df.rows[p - 1].is_key_candle)

\* mutant: shift(2) instead of shift(1)
IsFirstInGroupShiftTwo(cand, p) == ~(IF p <= 1 THEN FALSE ELSE cand[p - 2])

\* ~is_potential_key_candle.shift(1).fillna(False)
IsFirstInGroup(cand, p) == ~(IF p = 0 THEN FALSE ELSE cand[p - 1])

\* step 1: the trailing volume threshold
KcVolumeThreshold ==
    /\ k_pc = "idle"
    /\ k_df' = SetColumn(k_df, "volume_threshold",
                  [p \in DOMAIN k_df.rows |->
                     VolumeThresholdAt(k_df.rows, k_args.volume_lookback,
                                       k_args.volume_percentile_threshold, p)])
    /\ k_pc' = "body"
    /\ UNCHANGED <<k_args, is_potential_key_candle>>
    /\ UNCHANGED <<lvars, zvars, nvars>>

\* step 2: body size and body percentage
KcBody ==
    /\ k_pc = "body"
    /\ k_df' = SetColumn(
                  SetColumn(k_df, "body_size",
                      [p \in DOMAIN k_df.rows |-> Abs(k_df.rows[p].close - k_df.rows[p].open)]),
                  "body_percentage",
                  [p \in DOMAIN k_df.rows |-> BodyPercentage(k_df.rows[p])])
    /\ k_pc' = "candidates"
    /\ UNCHANGED <<k_args, is_potential_key_candle>>
    /\ UNCHANGED <<lvars, zvars, nvars>>

\* step 3: the raw candidates
KcCandidates ==
    /\ k_pc = "candidates"
    /\ is_potential_key_candle' =
          [p \in DOMAIN k_df.rows |->
             HighVolume(k_df.rows[p])
             /\ IndecisionBody(k_df.rows[p], k_args.body_percentile_threshold)]
    /\ k_pc' = "flag"
    /\ UNCHANGED <<k_df, k_args>>
    /\ UNCHANGED <<lvars, zvars, nvars>>

\* step 4: only the first candle of a group of candidates is flagged; return df
KcFlag ==
    /\ k_pc = "flag"
    /\ k_df' = SetColumn(k_df, "is_key_candle",
                  [p \in DOMAIN k_df.rows |->
                     is_potential_key_candle[p]
                     /\ IsFirstInGroup(is_potential_key_candle, p)])
    /\ k_pc' = "done"
    /\ UNCHANGED <<k_args, is_potential_key_candle>>
    /\ UNCHANGED <<lvars, zvars, nvars>>

KeyNext ==
    \/ KcVolumeThreshold
    \/ KcBody
    \/ KcCandidates
    \/ KcFlag

\* ----------------------------------------------- key-candle detector: inputs
KeyBarMenu ==
    { OBar(10, 12, 8, 10, 5),     \* doji, high volume
      OBar(10, 12, 8, 10, 1),     \* doji, low volume
      OBar(8, 12, 8, 12, 5),      \* full body, high volume
      OBar(10, 10, 10, 10, 3) }   \* no range, middle volume

KeyTables ==
    { [cols |-> ZoneCols, rows |-> r] : r \in [0 .. MaxKeyBars - 1 -> KeyBarMenu] }

KeyArgs ==
    { [volume_lookback |-> w, volume_percentile_threshold |-> q,
       body_percentile_threshold |-> <<3, 10>>] :
        w \in {1, 2}, q \in { <<1, 2>>, <<9, 10>> } }

KeyStart(args, t) ==
    /\ k_df = t
    /\ k_args = args
    /\ is_potential_key_candle = <<>>
    /\ k_pc = "idle"

KeyInit == \E args \in KeyArgs, t \in KeyTables : KeyStart(args, t)

\* ===================================================== the signal combiner
\* SignalCombiner.detect: a key candle with a zone bar in its look-back window
\* and a trend of sufficient quality is a triple coincidence.

\* pd.NA in a column of reals (NaN is the float nan)
NAReal == <<1, 0>>
IsNA(r) == r = NAReal

\* a >= b on reals, as "True", "False" or "NA": False against NaN, pd.NA
\* against pd.NA
RealGE(a, b) ==
    IF IsNA(a) \/ IsNA(b) THEN "NA"
    ELSE IF IsNaN(a) \/ IsNaN(b) THEN "False"
    ELSE IF a[1] * b[2] >= b[1] * a[2] THEN "True" ELSE "False"

\* the row of a table of detector outputs
SigRow(key, zid, r2) ==
    [is_key_candle |-> key, in_accumulation_zone |-> (zid # NA), zone_id |-> zid,
     trend_r_squared |-> r2]

\* SignalCombiner.__init__
Combiner(tol, mr) == [tolerance |-> tol, min_r_squared |-> mr]

\* df[df[col]].index: the positions at which the boolean column holds True,
\* ascending, from position p on
RECURSIVE TrueIndexFrom(_, _, _)
TrueIndexFrom(rows, col, p) ==
    IF p \notin DOMAIN rows THEN <<>>
    ELSE (IF rows[p][col] THEN <<p>> ELSE <<>>) \o TrueIndexFrom(rows, col, p + 1)

TrueIndex(t, col) == TrueIndexFrom(t.rows, col, 0)

\* df_res.loc[idx, col] = v
SetCell(t, idx, col, v) ==
    [t EXCEPT !.rows = [p \in DOMAIN t.rows |->
        IF p = idx THEN [t.rows[p] EXCEPT ![col] = v] ELSE t.rows[p]]]

\* mutant: the bar before the key candle is the one examined and marked
c_idx_before_key_candle == Max2(0, key_candle_indices[c_k] - 1)

\* for idx in key_candle_indices
c_idx == key_candle_indices[c_k]

\* mutant: the look-back window one bar short
start_window_one_short == Max2(0, c_idx - c_self.tolerance + 1)

\* start_window = max(0, idx - self.tolerance)
start_window == Max2(0, c_idx - c_self.tolerance)

\* df_res.loc[start_window:idx, 'in_accumulation_zone'].any()
zone_nearby ==
    \E p \in start_window .. c_idx :
        p \in DOMAIN c_res.rows /\ c_res.rows[p].in_accumulation_zone

\* df_res.loc[idx, 'trend_r_squared'] >= self.min_r_squared
quality_trend == RealGE(c_res.rows[c_idx].trend_r_squared, c_self.min_r_squared)

\* detect(df) up to the loop
CombDetect ==
    /\ c_pc = "idle"
    /\ c_res' = SetColumn(c_df, "is_triple_coincidence",
                          [p \in DOMAIN c_df.rows |-> FALSE])
    /\ key_candle_indices' = TrueIndex(c_df, "is_key_candle")
    /\ c_k' = 1
    /\ c_pc' = "loop"
    /\ UNCHANGED <<c_self, c_df, c_first>>
    /\ UNCHANGED <<lvars, zvars, kvars, ivars, svars, tvars, ovars, pvars>>

\* an iteration whose two conditions hold: the key candle is marked
CombMark ==
    /\ c_pc = "loop"
    /\ c_k <= Len(key_candle_indices)
    /\ zone_nearby
    /\ quality_trend = "True"
    /\ c_res' = SetCell(c_res, c_idx, "is_triple_coincidence", TRUE)
    /\ c_k' = c_k + 1
    /\ UNCHANGED <<c_self, c_df, key_candle_indices, c_pc, c_first>>
    /\ UNCHANGED <<lvars, zvars, kvars, ivars, svars, tvars, ovars, pvars>>

\* an iteration in which "zone_nearby and quality_trend" is falsy; the right
\* operand is not tested when zone_nearby is False
CombPass ==
    /\ c_pc = "loop"
    /\ c_k <= Len(key_candle_indices)
    /\ ~zone_nearby \/ quality_trend = "False"
    /\ c_k' = c_k + 1
    /\ UNCHANGED <<c_self, c_df, c_res, key_candle_indices, c_pc, c_first>>
    /\ UNCHANGED <<lvars, zvars, kvars, ivars, svars, tvars, ovars, pvars>>

\* an iteration in which the condition evaluates to pd.NA: "if" raises
\* TypeError (boolean value of NA is ambiguous)
CombRaises ==
    /\ c_pc = "loop"
    /\ c_k <= Len(key_candle_indices)
    /\ zone_nearby
    /\ quality_trend = "NA"
    /\ c_pc' = "raised"
    /\ UNCHANGED <<c_self, c_df, c_res, key_candle_indices, c_k, c_first>>
    /\ UNCHANGED <<lvars, zvars, kvars, ivars, svars, tvars, ovars, pvars>>

\* return df_res
CombReturn ==
    /\ c_pc = "loop"
    /\ c_k > Len(key_candle_indices)
    /\ c_pc' = "done"
    /\ UNCHANGED <<c_self, c_df, c_res, key_candle_indices, c_k, c_first>>
    /\ UNCHANGED <<lvars, zvars, kvars, ivars, svars, tvars, ovars, pvars>>

CombNext ==
    \/ CombDetect
    \/ CombMark
    \/ CombPass
    \/ CombRaises
    \/ CombReturn

\* ------------------------------------------------------- combiner: inputs
\* Tables as the zone, trend and key-candle detectors leave them: zone ids
\* number contiguous runs in ascending order, and the trend quality is constant
\* over a trend segment.
NoZone(n) == [p \in 0 .. n - 1 |-> NA]

OneZone(n, a, b) == [p \in 0 .. n - 1 |-> IF a <= p /\ p <= b THEN 0 ELSE NA]

TwoZones(n) ==
    [p \in 0 .. n - 1 |-> IF p = 0 THEN 0 ELSE IF p >= n - 2 THEN 1 ELSE NA]

ZoneLayouts(n) ==
    {NoZone(n), TwoZones(n)}
        \cup {OneZone(n, a, b) : a \in 0 .. n - 1, b \in 0 .. n - 1}

Qualities == { <<0, 1>>, <<1, 2>>, <<1, 1>>, NaN, NAReal }

\* one trend over the whole table, or two segments meeting at position 2
QualityLayouts(n) ==
    { [p \in 0 .. n - 1 |-> IF p < 2 THEN r1 ELSE r2] :
        r1 \in Qualities, r2 \in Qualities }

\* at most two key candles
KeyLayouts(n) ==
    { [p \in 0 .. n - 1 |-> p = a \/ p = b] : a \in 0 .. n, b \in 0 .. n }

SigCols ==
    ZoneCols \cup {"in_accumulation_zone", "zone_id", "trend_id", "trend_direction",
                   "trend_slope", "trend_r_squared", "is_key_candle"}

SigTables ==
    { [cols |-> SigCols,
       rows |-> [p \in 0 .. MaxSigBars - 1 |-> SigRow(ky[p], zl[p], ql[p])]] :
        ky \in KeyLayouts(MaxSigBars), zl \in ZoneLayouts(MaxSigBars),
        ql \in QualityLayouts(MaxSigBars) }

Combiners == { Combiner(tol, mr) : tol \in {1, 2}, mr \in { <<0, 1>>, <<1, 2>> } }

NoFrame == [cols |-> {}, rows |-> <<>>]

CombStart(self, t) ==
    /\ c_self = self
    /\ c_df = t
    /\ c_res = NoFrame
    /\ key_candle_indices = <<>>
    /\ c_k = 1
    /\ c_pc = "idle"
    /\ c_first = NoFrame

CombInit == \E self \in Combiners, t \in SigTables : CombStart(self, t)

\* a table with one zone of n bars at its start, one key candle and one trend
LongZoneTable(n, key, r2) ==
    [cols |-> SigCols,
     rows |-> [p \in 0 .. MaxLongZone |->
                 SigRow(p = key, IF p < n THEN 0 ELSE NA, r2)]]

\* zones of 1 .. MaxLongZone bars, the key candle the last bar of the zone or
\* the bar after it
CombLongInit ==
    \E n \in 1 .. MaxLongZone, after \in {0, 1}, r2 \in { <<0, 1>>, <<1, 2>>, <<1, 1>> } :
        CombStart(Combiner(1, <<0, 1>>), LongZoneTable(n, n - 1 + after, r2))

\* ======================================================= the signal scorer
\* SignalScorer.score: half the normalised size of the signal's zone plus half
\* the trend quality, on the triple coincidences only.

\* reals: sum, product, order; NaN and pd.NA give NaN
RealAdd(a, b) ==
    IF a[2] = 0 \/ b[2] = 0 THEN NaN ELSE <<a[1] * b[2] + b[1] * a[2], a[2] * b[2]>>

RealMul(a, b) == IF a[2] = 0 \/ b[2] = 0 THEN NaN ELSE <<a[1] * b[1], a[2] * b[2]>>

RealLess(a, b) == a[1] * b[2] < b[1] * a[2]

\* mutant: the ratio without the clamp to [0, 1]
NormalizeUnclamped(v, min_v, max_v) ==
    IF max_v # min_v THEN <<v - min_v, max_v - min_v>> ELSE <<1, 2>>

\* _normalize(v, min_v, max_v)
Normalize(v, min_v, max_v) ==
    IF max_v # min_v
    THEN LET x == <<v - min_v, max_v - min_v>>
             capped == IF RealLess(<<1, 1>>, x) THEN <<1, 1>> ELSE x
         IN  IF RealLess(capped, <<0, 1>>) THEN <<0, 1>> ELSE capped
    ELSE <<1, 2>>

\* df_res[df_res['zone_id'] == row['zone_id']]: a comparison with pd.NA is
\* pd.NA, which selects no row
ZoneSlice(t, zid) ==
    IF zid = NA THEN {} ELSE {p \in DOMAIN t.rows : t.rows[p].zone_id = zid}

\* mutant: bars without a signal score zero
NoScoreAsZero == <<0, 1>>

\* df_res['final_score'] = np.nan
NoScore == NaN

s_idx == signals[s_k]
s_row == s_res.rows[s_idx]
zone_score ==
    LET zone_slice == ZoneSlice(s_res, s_row.zone_id)
    IN  IF zone_slice # {} THEN Normalize(Cardinality(zone_slice), 5, 50) ELSE <<0, 1>>
trend_score == s_row.trend_r_squared

\* (zone_score * 0.5) + (trend_score * 0.5)
FinalScore(zs, ts) == RealAdd(RealMul(zs, <<1, 2>>), RealMul(ts, <<1, 2>>))

\* score(df) up to the loop, on the table a finished combiner returned
ScoreCall ==
    /\ s_pc = "idle"
    /\ c_pc = "done"
    /\ s_df' = c_res
    /\ s_res' = SetColumn(c_res, "final_score", [p \in DOMAIN c_res.rows |-> NoScore])
    /\ signals' = TrueIndex(c_res, "is_triple_coincidence")
    /\ s_k' = 1
    /\ s_pc' = "loop"
    /\ UNCHANGED <<lvars, zvars, kvars, ivars, cvars, tvars, ovars, pvars>>

\* an iteration: the score of one signal
ScoreSignal ==
    /\ s_pc = "loop"
    /\ s_k <= Len(signals)
    /\ s_res' = SetCell(s_res, s_idx, "final_score", FinalScore(zone_score, trend_score))
    /\ s_k' = s_k + 1
    /\ UNCHANGED <<s_df, signals, s_pc>>
    /\ UNCHANGED <<lvars, zvars, kvars, ivars, cvars, tvars, ovars, pvars>>

\* return df_res
ScoreReturn ==
    /\ s_pc = "loop"
    /\ s_k > Len(signals)
    /\ s_pc' = "done"
    /\ UNCHANGED <<s_df, s_res, signals, s_k>>
    /\ UNCHANGED <<lvars, zvars, kvars, ivars, cvars, tvars, ovars, pvars>>

ScoreNext ==
    \/ ScoreCall
    \/ ScoreSignal
    \/ ScoreReturn

ScoreStart ==
    /\ s_df = NoFrame
    /\ s_res = NoFrame
    /\ signals = <<>>
    /\ s_k = 1
    /\ s_pc = "idle"

\* ====================================================== the trend detector
\* TrendDetector.detect: one regression per segment between consecutive
\* pivots.  The zigzag indicator is a library call; the positions at which it
\* has a value are any subset of the positions of the table.

\* sorted(list(set(...))) of a set of positions
RECURSIVE SortedList(_)
SortedList(S) ==
    IF S = {} THEN <<>>
    ELSE LET m == CHOOSE x \in S : \A y \in S : x <= y
         IN  <<m>> \o SortedList(S \ {m})

\* mutant: only the first position is made a pivot
WithFirstPivotOnly(piv, first, last) ==
    IF piv = <<>> \/ piv[1] # first THEN <<first>> \o piv ELSE piv

\* the first and the last position are made pivots
WithEndPivots(piv, first, last) ==
    LET a == IF piv = <<>> \/ piv[1] # first THEN <<first>> \o piv ELSE piv
    IN  IF a[Len(a)] # last THEN Append(a, last) ELSE a

\* df_res = df.copy() with the four output columns initialised
TrendResultInit(t) ==
    [cols |-> t.cols \cup {"trend_id", "trend_direction", "trend_slope",
                           "trend_r_squared"},
     rows |-> [p \in DOMAIN t.rows |->
                 [high |-> t.rows[p].high, low |-> t.rows[p].low,
                  close |-> t.rows[p].close,
                  trend_id |-> NA, trend_direction |-> "",
                  trend_slope |-> NAReal, trend_r_squared |-> NAReal]]]

\* sums of linregress(x, y) with x = 0 .. n - 1 and y the closes of a .. b
RECURSIVE SumOver(_, _, _)
SumOver(f, a, b) == IF a > b THEN 0 ELSE f[a] + SumOver(f, a + 1, b)

SegN(a, b) == b - a + 1
SegSxy(rows, a, b) ==
    SegN(a, b) * SumOver([p \in a .. b |-> (p - a) * rows[p].close], a, b)
        - SumOver([p \in a .. b |-> p - a], a, b)
          * SumOver([p \in a .. b |-> rows[p].close], a, b)
SegSxx(a, b) ==
    SegN(a, b) * SumOver([p \in a .. b |-> (p - a) * (p - a)], a, b)
        - SumOver([p \in a .. b |-> p - a], a, b) * SumOver([p \in a .. b |-> p - a], a, b)
SegSyy(rows, a, b) ==
    SegN(a, b) * SumOver([p \in a .. b |-> rows[p].close * rows[p].close], a, b)
        - SumOver([p \in a .. b |-> rows[p].close], a, b)
          * SumOver([p \in a .. b |-> rows[p].close], a, b)

\* slope of the regression
Slope(rows, a, b) == <<SegSxy(rows, a, b), SegSxx(a, b)>>

\* r_value ** 2; r_value is 0 when the closes are constant
RSquared(rows, a, b) ==
    IF SegSyy(rows, a, b) = 0 THEN <<0, 1>>
    ELSE <<SegSxy(rows, a, b) * SegSxy(rows, a, b), SegSxx(a, b) * SegSyy(rows, a, b)>>

\* df_res.loc[a:b, ...] = ...: the four columns of the bars a .. b
MarkTrend(t, a, b, id) ==
    [t EXCEPT !.rows = [p \in DOMAIN t.rows |->
        IF a <= p /\ p <= b
        THEN [t.rows[p] EXCEPT
                 !.trend_id = id,
                 !.trend_direction =
                     IF Slope(t.rows, a, b)[1] > 0 THEN "alcista" ELSE "bajista",
                 !.trend_slope = Slope(t.rows, a, b),
                 !.trend_r_squared = RSquared(t.rows, a, b)]
        ELSE t.rows[p]]]

\* detect(df) on an empty table: df itself is returned
TrendReturnEmpty ==
    /\ t_pc = "idle"
    /\ NRows(t_df) = 0
    /\ t_ret' = "df"
    /\ t_pc' = "done"
    /\ UNCHANGED <<t_df, t_res, zigzag_series, pivot_indices, t_i>>
    /\ UNCHANGED <<lvars, zvars, kvars, ivars, cvars, svars, ovars, pvars>>

\* detect(df) up to the loop
TrendDetect ==
    /\ t_pc = "idle"
    /\ NRows(t_df) > 0
    /\ \E zz \in SUBSET (DOMAIN t_df.rows) :
          /\ zigzag_series' = zz
          /\ pivot_indices' = WithEndPivots(SortedList(zz), 0, NRows(t_df) - 1)
    /\ t_res' = TrendResultInit(t_df)
    /\ t_i' = 0
    /\ t_pc' = "loop"
    /\ UNCHANGED <<t_df, t_ret>>
    /\ UNCHANGED <<lvars, zvars, kvars, ivars, cvars, svars, ovars, pvars>>

\* an iteration: the segment between pivots i and i + 1 (both included)
TrendSegment ==
    /\ t_pc = "loop"
    /\ t_i < Len(pivot_indices) - 1
    /\ LET start_idx == pivot_indices[t_i + 1]
           end_idx == pivot_indices[t_i + 2]
       IN  t_res' = IF start_idx >= end_idx \/ SegN(start_idx, end_idx) < 2
                    THEN t_res
                    ELSE MarkTrend(t_res, start_idx, end_idx, t_i)
    /\ t_i' = t_i + 1
    /\ UNCHANGED <<t_df, zigzag_series, pivot_indices, t_pc, t_ret>>
    /\ UNCHANGED <<lvars, zvars, kvars, ivars, cvars, svars, ovars, pvars>>

\* after the loop: return df_res
TrendReturn ==
    /\ t_pc = "loop"
    /\ t_i >= Len(pivot_indices) - 1
    /\ t_ret' = "df_res"
    /\ t_pc' = "done"
    /\ UNCHANGED <<t_df, t_res, zigzag_series, pivot_indices, t_i>>
    /\ UNCHANGED <<lvars, zvars, kvars, ivars, cvars, svars, ovars, pvars>>

TrendNext ==
    \/ TrendReturnEmpty
    \/ TrendDetect
    \/ TrendSegment
    \/ TrendReturn

\* ------------------------------------------------- trend detector: inputs
TrendBarMenu == { Bar(11, 9, 10), Bar(12, 10, 11), Bar(13, 11, 12) }

TrendTables ==
    { [cols |-> ZoneCols, rows |-> r] :
        r \in UNION { [0 .. n - 1 -> TrendBarMenu] : n \in 0 .. MaxTrendBars } }

TrendStart(t) ==
    /\ t_df = t
    /\ t_res = NoFrame
    /\ zigzag_series = {}
    /\ pivot_indices = <<>>
    /\ t_i = 0
    /\ t_pc = "idle"
    /\ t_ret = "none"

TrendInit == \E t \in TrendTables : TrendStart(t)

\* ============================================= the historical data store
\* HistoricalDataProcessor.process_and_store_files: the klines files of the
\* list are parsed, concatenated and inserted with ON CONFLICT DO NOTHING
\* under the primary key (symbol, interval, open_time).

\* a row of the table klines
KlinesRow(sym, itv, ot, bar) ==
    [symbol |-> sym, interval |-> itv, open_time |-> ot, open |-> bar.open,
     high |-> bar.high, low |-> bar.low, close |-> bar.close, volume |-> bar.volume]

\* PRIMARY KEY (symbol, interval, open_time)
PrimaryKey(r) == <<r.symbol, r.interval, r.open_time>>

\* pd.to_datetime(open_time, unit="ms"), as microseconds
ToDatetime(ms) == ms * 1000

\* a file: the parts of its path, whether it exists, and the lines of its csv
File(parts, exists, lines) == [parts |-> parts, exists |-> exists, lines |-> lines]

\* "/klines/" in path_str, "/trades/" in path_str
InDirectory(f, name) == \E i \in 1 .. Len(f.parts) - 1 : f.parts[i] = name

\* _parse_klines_dataframe_from_zip: symbol and interval are parts[-3] and
\* parts[-2] of the path
ParseKlines(f) ==
    [i \in DOMAIN f.lines |->
        KlinesRow(f.parts[Len(f.parts) - 2], f.parts[Len(f.parts) - 1],
                  ToDatetime(f.lines[i].open_time), f.lines[i])]

\* the loop over file_paths: the non-empty frames of the existing klines files
RECURSIVE ParseAll(_)
ParseAll(fs) ==
    IF fs = <<>> THEN <<>>
    ELSE LET f == Head(fs)
         IN  (IF f.exists /\ InDirectory(f, "klines") /\ f.lines # <<>>
              THEN <<ParseKlines(f)>> ELSE <<>>) \o ParseAll(Tail(fs))

\* trades_dfs is not empty
HasTrades(fs) ==
    \E i \in DOMAIN fs :
        /\ fs[i].exists
        /\ ~InDirectory(fs[i], "klines")
        /\ InDirectory(fs[i], "trades")
        /\ fs[i].lines # <<>>

\* pd.concat(klines_dfs, ignore_index=True)
RECURSIVE Concat(_)
Concat(dfs) == IF dfs = <<>> THEN <<>> ELSE Head(dfs) \o Concat(Tail(dfs))

\* two rows of the inserted frame have the same key
InnerConflict(frame) ==
    \E i, j \in DOMAIN frame : i # j /\ PrimaryKey(frame[i]) = PrimaryKey(frame[j])

\* mutant: the rows in conflict are inserted as well
InsertableRowsWithoutConflictClause(tbl, frame) == Range(frame)

\* ON CONFLICT DO NOTHING: the rows whose key is not stored yet
InsertableRows(tbl, frame) ==
    {r \in Range(frame) : \A q \in tbl : PrimaryKey(q) # PrimaryKey(r)}

\* the tables an INSERT ... ON CONFLICT DO NOTHING can leave: of the rows of
\* the frame that share a new key, one is stored
InsertOutcomes(tbl, frame) ==
    LET fresh == InsertableRows(tbl, frame)
    IN  { tbl \cup kept : kept \in
            { ks \in SUBSET fresh :
                /\ \A r \in fresh : \E q \in ks : PrimaryKey(q) = PrimaryKey(r)
                /\ \A q1, q2 \in ks : PrimaryKey(q1) = PrimaryKey(q2) => q1 = q2 } }

\* ------------------------------------------------------ data store: inputs
\* a line of a klines csv: open_time in milliseconds and the prices
CsvLine(ms, c, v) ==
    [open_time |-> ms, open |-> c, high |-> c + 2, low |-> c - 2, close |-> c,
     volume |-> v]

\* two files of one partition that overlap on open_time 2 with different
\* prices, a file of another symbol, a missing file and a trades file
StoreFiles ==
    { File(<<"data", "klines", "BTCUSDT", "1d", "a.zip">>, TRUE,
           <<CsvLine(1, 10, 1), CsvLine(2, 11, 1)>>),
      File(<<"data", "klines", "BTCUSDT", "1d", "b.zip">>, TRUE,
           <<CsvLine(2, 12, 5), CsvLine(3, 13, 1)>>),
      File(<<"data", "klines", "ETHUSDT", "1d", "c.zip">>, TRUE,
           <<CsvLine(1, 20, 1)>>),
      File(<<"data", "klines", "BTCUSDT", "4h", "d.zip">>, FALSE, <<>>),
      File(<<"data", "trades", "BTCUSDT", "t.zip">>, TRUE,
           <<CsvLine(1, 10, 1)>>) }

\* the lists of files passed to a call: none, one file, one file twice, the
\* two overlapping files in either order, a missing file with the trades file
StoreFileLists ==
    {<<>>} \cup {<<f>> : f \in StoreFiles} \cup {<<f, f>> : f \in StoreFiles}
        \cup { <<f, g>> : f \in {x \in StoreFiles : x.exists /\ InDirectory(x, "klines")},
                          g \in {x \in StoreFiles : x.parts[3] = "BTCUSDT"} }

\* process_and_store_files(file_paths): the loop over the files
StoreParse ==
    /\ p_pc = "idle"
    /\ Len(p_done) < MaxStoreCalls
    /\ \E fs \in StoreFileLists :
          /\ file_paths' = fs
          /\ klines_dfs' = ParseAll(fs)
    /\ p_pc' = "parsed"
    /\ UNCHANGED <<p_done, rejects_inner_conflict, db_tables, klines>>
    /\ UNCHANGED <<o_args, o_pc, o_ret>>
    /\ UNCHANGED <<lvars, zvars, kvars, ivars, cvars, svars, tvars>>

\* nothing was parsed: return without opening the database
StoreNothing ==
    /\ p_pc = "parsed"
    /\ klines_dfs = <<>>
    /\ ~HasTrades(file_paths)
    /\ p_done' = Append(p_done, file_paths)
    /\ p_pc' = "idle"
    /\ UNCHANGED <<file_paths, klines_dfs, rejects_inner_conflict, db_tables, klines>>
    /\ UNCHANGED <<o_args, o_pc, o_ret>>
    /\ UNCHANGED <<lvars, zvars, kvars, ivars, cvars, svars, tvars>>

\* the tables are created if missing and the frames inserted
StoreInsert ==
    /\ p_pc = "parsed"
    /\ klines_dfs # <<>> \/ HasTrades(file_paths)
    /\ ~(rejects_inner_conflict /\ InnerConflict(Concat(klines_dfs)))
    /\ db_tables' = db_tables \cup {"klines", "trades"}
    /\ IF klines_dfs # <<>>
       THEN klines' \in InsertOutcomes(klines, Concat(klines_dfs))
       ELSE UNCHANGED klines
    /\ p_done' = Append(p_done, file_paths)
    /\ p_pc' = "idle"
    /\ UNCHANGED <<file_paths, klines_dfs, rejects_inner_conflict>>
    /\ UNCHANGED <<o_args, o_pc, o_ret>>
    /\ UNCHANGED <<lvars, zvars, kvars, ivars, cvars, svars, tvars>>

\* the inserted frame holds one key twice and the engine rejects the
\* statement: the exception leaves process_and_store_files, nothing is stored
StoreInsertRejected ==
    /\ p_pc = "parsed"
    /\ klines_dfs # <<>>
    /\ rejects_inner_conflict
    /\ InnerConflict(Concat(klines_dfs))
    /\ db_tables' = db_tables \cup {"klines", "trades"}
    /\ p_done' = Append(p_done, file_paths)
    /\ p_pc' = "idle"
    /\ UNCHANGED <<file_paths, klines_dfs, rejects_inner_conflict, klines>>
    /\ UNCHANGED <<o_args, o_pc, o_ret>>
    /\ UNCHANGED <<lvars, zvars, kvars, ivars, cvars, svars, tvars>>

StoreNext ==
    \/ StoreParse
    \/ StoreNothing
    \/ StoreInsert
    \/ StoreInsertRejected

StoreStart(rejects) ==
    /\ file_paths = <<>>
    /\ klines_dfs = <<>>
    /\ p_pc = "idle"
    /\ p_done = <<>>
    /\ rejects_inner_conflict = rejects

\* whether an engine refuses such a frame or stores one row of each key
\* depends on the DuckDB release
StoreInit == \E rejects \in BOOLEAN : StoreStart(rejects)

\* ================================================ the signal orchestrator
\* SignalOrchestrator.generate_signals(symbol, interval): the bars of the
\* partition are read in open_time order and handed to KeyCandleDetector.

KlinesCols ==
    {"symbol", "interval", "open_time", "open", "high", "low", "close", "volume"}

\* the defaults of KeyCandleDetector.detect
DefaultVolumeLookback == 20
DefaultKeyArgs ==
    [volume_lookback |-> DefaultVolumeLookback,
     volume_percentile_threshold |-> <<9, 10>>,
     body_percentile_threshold |-> <<3, 10>>]

\* ... ORDER BY open_time
RECURSIVE OrderByOpenTime(_)
OrderByOpenTime(S) ==
    IF S = {} THEN <<>>
    ELSE LET m == CHOOSE r \in S : \A q \in S : r.open_time <= q.open_time
         IN  <<m>> \o OrderByOpenTime(S \ {m})

\* mutant: the interval is not part of the WHERE clause
SelectKlinesAnyInterval(tbl, sym, itv) == {r \in tbl : r.symbol = sym}

\* SELECT * FROM klines WHERE symbol = ? AND interval = ?
SelectKlines(tbl, sym, itv) == {r \in tbl : r.symbol = sym /\ r.interval = itv}

\* fetchdf(): the rows under a RangeIndex
FetchDf(ordered) ==
    [cols |-> KlinesCols, rows |-> [p \in 0 .. Len(ordered) - 1 |-> ordered[p + 1]]]

o_query == OrderByOpenTime(SelectKlines(klines, o_args.symbol, o_args.interval))

\* the table klines does not exist: duckdb.Error is caught and an empty
\* DataFrame returned
OrchQueryFails ==
    /\ o_pc = "idle"
    /\ "klines" \notin db_tables
    /\ o_ret' = NoFrame
    /\ o_pc' = "done"
    /\ UNCHANGED <<db_tables, klines, o_args>>
    /\ UNCHANGED <<lvars, zvars, kvars, ivars, cvars, svars, tvars, pvars>>

\* the query returns no row: the empty frame is returned as it is
OrchReturnEmpty ==
    /\ o_pc = "idle"
    /\ "klines" \in db_tables
    /\ o_query = <<>>
    /\ o_ret' = FetchDf(o_query)
    /\ o_pc' = "done"
    /\ UNCHANGED <<db_tables, klines, o_args>>
    /\ UNCHANGED <<lvars, zvars, kvars, ivars, cvars, svars, tvars, pvars>>

\* the query returns rows: KeyCandleDetector.detect(df) is called
OrchQuery ==
    /\ o_pc = "idle"
    /\ "klines" \in db_tables
    /\ o_query # <<>>
    /\ k_df' = FetchDf(o_query)
    /\ k_args' = DefaultKeyArgs
    /\ is_potential_key_candle' = <<>>
    /\ k_pc' = "idle"
    /\ o_pc' = "detect"
    /\ UNCHANGED <<db_tables, klines, o_args, o_ret>>
    /\ UNCHANGED <<lvars, zvars, ivars, cvars, svars, tvars, pvars>>

\* the steps of the detector
OrchDetect ==
    /\ o_pc = "detect"
    /\ KeyNext

\* the detector returned: return df_with_signals
OrchReturn ==
    /\ o_pc = "detect"
    /\ k_pc = "done"
    /\ o_ret' = k_df
    /\ o_pc' = "done"
    /\ UNCHANGED <<db_tables, klines, o_args>>
    /\ UNCHANGED <<lvars, zvars, kvars, ivars, cvars, svars, tvars, pvars>>

OrchNext ==
    \/ OrchQueryFails
    \/ OrchReturnEmpty
    \/ OrchQuery
    \/ OrchDetect
    \/ OrchReturn

\* --------------------------------------------------- orchestrator: inputs
\* Stored rows have pairwise distinct primary keys.
OrchKeys ==
    { <<"BTCUSDT", "1d", ToDatetime(ms)>> : ms \in 1 .. MaxOpenTime }
        \cup { <<"BTCUSDT", "4h", ToDatetime(1)>>, <<"ETHUSDT", "1d", ToDatetime(2)>> }

OrchBars == { OBar(10, 12, 8, 10, 5), OBar(8, 12, 8, 12, 1) }

\* small tables: any set of the keys, each with one of the bars
SmallKlines ==
    UNION { { {KlinesRow(key[1], key[2], key[3], b[key]) : key \in ks} :
                b \in [ks -> OrchBars] } : ks \in SUBSET OrchKeys }

\* a partition longer than the look-back window: quiet bars followed by two
\* bars of the menu, next to a row of another interval
LongKlines ==
    { { KlinesRow("BTCUSDT", "1d", ToDatetime(ms), OBar(8, 12, 8, 12, 1)) :
            ms \in 1 .. DefaultVolumeLookback }
        \cup { KlinesRow("BTCUSDT", "1d", ToDatetime(DefaultVolumeLookback + 1), b1),
               KlinesRow("BTCUSDT", "1d", ToDatetime(DefaultVolumeLookback + 2), b2) }
        \cup other :
        b1 \in KeyBarMenu, b2 \in KeyBarMenu,
        other \in { {}, {KlinesRow("BTCUSDT", "4h", ToDatetime(1), OBar(10, 12, 8, 10, 5))} } }

OrchArgs ==
    { [symbol |-> sy, interval |-> it] :
        sy \in {"BTCUSDT", "ETHUSDT"}, it \in {"1d", "4h"} }

OrchStart(tables, tbl, args) ==
    /\ db_tables = tables
    /\ klines = tbl
    /\ o_args = args
    /\ o_pc = "idle"
    /\ o_ret = NoFrame

OrchInit ==
    \/ \E tbl \in SmallKlines \cup LongKlines, args \in OrchArgs :
          OrchStart({"klines", "trades"}, tbl, args)
    \/ \E args \in OrchArgs : OrchStart({}, {}, args)

\* ================================== a detector applied to its own output
\* The caller passes the table a detector returned to the same detector again.

ZoneReapply ==
    /\ z_pc = "done"
    /\ z_first = NoFrame
    /\ z_first' = df_res
    /\ z_df' = df_res
    /\ z_pc' = "idle"
    /\ UNCHANGED <<z_config, df_res, in_zone, zone_start_idx, zone_id_counter,
                   zone_high, zone_low, zi>>
    /\ UNCHANGED <<k_first, lvars, kvars, cvars, svars, tvars, ovars, pvars>>

KeyReapply ==
    /\ k_pc = "done"
    /\ k_first = NoFrame
    /\ k_first' = k_df
    /\ k_pc' = "idle"
    /\ UNCHANGED <<k_df, k_args, is_potential_key_candle>>
    /\ UNCHANGED <<z_first, lvars, zvars, cvars, svars, tvars, ovars, pvars>>

CombReapply ==
    /\ c_pc = "done"
    /\ c_first = NoFrame
    /\ c_first' = c_res
    /\ c_df' = c_res
    /\ c_pc' = "idle"
    /\ UNCHANGED <<c_self, c_res, key_candle_indices, c_k>>
    /\ UNCHANGED <<lvars, zvars, kvars, ivars, svars, tvars, ovars, pvars>>

IdemNext ==
    \/ ZoneNext
    \/ ZoneReapply
    \/ KeyNext
    \/ KeyReapply
    \/ CombNext
    \/ CombReapply

\* ========================================================= specifications
\* The three components share no state; each specification runs one of them
\* and leaves the others as constructed.

LabelerIdle ==
    LabelerStart(EngineConfig(<<1, 2>>, 1, 1, <<1, 2>>, 1),
                 [cols |-> PriceCols, index |-> MakeIndex(1),
                  rows |-> [p \in 0 .. 0 |-> Bar(11, 9, 10)]], <<>>)
ZoneIdle ==
    ZoneStart(ZoneConfig(1, <<1, 1>>, 2, 2, <<1, 1>>),
              [cols |-> ZoneCols, rows |-> [p \in 0 .. 0 |-> VBar(11, 9, 10, 1)]])
KeyIdle ==
    KeyStart([volume_lookback |-> 1, volume_percentile_threshold |-> <<1, 2>>,
              body_percentile_threshold |-> <<3, 10>>],
             [cols |-> ZoneCols, rows |-> [p \in 0 .. 0 |-> OBar(10, 12, 8, 10, 1)]])
\* no table has been handed to the key-candle detector
KeyUncalled == KeyStart(DefaultKeyArgs, NoFrame)

FirstApplication == z_first = NoFrame /\ k_first = NoFrame
CombIdle == CombStart(Combiner(1, <<1, 2>>), NoFrame)
TrendIdle == TrendStart(NoFrame)
OrchIdle == OrchStart({}, {}, [symbol |-> "BTCUSDT", interval |-> "1d"])

SignalsIdle == CombIdle /\ ScoreStart /\ TrendIdle
StoreIdle == StoreStart(FALSE)
StorageIdle == OrchIdle /\ StoreIdle
RestIdle == FirstApplication /\ SignalsIdle /\ StorageIdle

InitLabeler == LabelerInit /\ ZoneIdle /\ KeyIdle /\ RestIdle
SpecLabeler == InitLabeler /\ [][LabelerNext]_vars

InitZone == ZoneInit /\ LabelerIdle /\ KeyIdle /\ RestIdle
SpecZone == InitZone /\ [][ZoneNext]_vars

InitKey == KeyInit /\ LabelerIdle /\ ZoneIdle /\ RestIdle
SpecKey == InitKey /\ [][KeyNext]_vars

\* the combiner, and the scorer on the table the combiner returned
SignalsNext == CombNext \/ ScoreNext
InitSignals ==
    /\ CombInit \/ CombLongInit
    /\ ScoreStart /\ TrendIdle
    /\ LabelerIdle /\ ZoneIdle /\ KeyIdle /\ FirstApplication /\ StorageIdle
SpecSignals == InitSignals /\ [][SignalsNext]_vars

InitTrend ==
    /\ TrendInit /\ CombIdle /\ ScoreStart
    /\ LabelerIdle /\ ZoneIdle /\ KeyIdle /\ FirstApplication /\ StorageIdle
SpecTrend == InitTrend /\ [][TrendNext]_vars

InitOrch ==
    /\ OrchInit /\ StoreIdle
    /\ LabelerIdle /\ ZoneIdle /\ KeyUncalled /\ FirstApplication /\ SignalsIdle
SpecOrch == InitOrch /\ [][OrchNext]_vars

InitStore ==
    /\ OrchIdle /\ StoreInit
    /\ LabelerIdle /\ ZoneIdle /\ KeyIdle /\ FirstApplication /\ SignalsIdle
SpecStore == InitStore /\ [][StoreNext]_vars

\* one of the three detectors applied twice; the other two are not called
ZoneOff ==
    /\ z_config = ZoneConfig(1, <<1, 1>>, 2, 2, <<1, 1>>)
    /\ z_df = NoFrame /\ df_res = NoFrame
    /\ in_zone = FALSE /\ zone_start_idx = -1 /\ zone_id_counter = 0
    /\ zone_high = 0 /\ zone_low = 0 /\ zi = 0
    /\ z_pc = "off"
KeyOff ==
    /\ k_df = NoFrame
    /\ k_args = DefaultKeyArgs
    /\ is_potential_key_candle = <<>>
    /\ k_pc = "off"
CombOff ==
    /\ c_self = Combiner(1, <<1, 2>>)
    /\ c_df = NoFrame /\ c_res = NoFrame
    /\ key_candle_indices = <<>> /\ c_k = 1
    /\ c_first = NoFrame
    /\ c_pc = "off"

IdemInit ==
    \/ /\ ZoneInit /\ KeyOff /\ CombOff
       /\ z_config.atr_period = 1 /\ z_config.min_zone_bars = 2
    \/ KeyInit /\ ZoneOff /\ CombOff
    \/ CombInit /\ ZoneOff /\ KeyOff

InitIdem ==
    /\ IdemInit /\ FirstApplication
    /\ LabelerIdle /\ ScoreStart /\ TrendIdle /\ StorageIdle
SpecIdem == InitIdem /\ [][IdemNext]_vars

\* =================================================== claims: the labeler
\* Vocabulary of the claims, stated on the caller's bars and the engine's
\* configuration, independently of the walk above.
InBars == heap["prices"].rows
NBars == Cardinality(DOMAIN InBars)
LocOfTs(ts) == CHOOSE p \in DOMAIN InBars : heap["prices"].index[p] = ts
TsInIndex(ts) == \E p \in DOMAIN InBars : heap["prices"].index[p] = ts
EvAtr(loc) == ATR(InBars, config.atr_period, loc)
EvDefined(loc) == EvAtr(loc)[2] # 0 /\ EvAtr(loc)[1] # 0
Entry(loc) == InBars[loc].close

\* The profit factor of level l: the l-th smallest of the configured factors.
LevelFactor(l) ==
    LET pfs == config.profit_factors
    IN  CHOOSE v \in Range(pfs) :
            /\ Cardinality({i \in DOMAIN pfs : pfs[i] < v}) < l
            /\ l <= Cardinality({i \in DOMAIN pfs : pfs[i] <= v})
Levels == DOMAIN config.profit_factors

TouchesTP(j, loc, l) ==
    InBars[j].high * EvAtr(loc)[2] >= Entry(loc) * EvAtr(loc)[2] + EvAtr(loc)[1] * LevelFactor(l)
TouchesSomeTP(j, loc) == \E l \in Levels : TouchesTP(j, loc, l)
TouchesSL(j, loc) ==
    InBars[j].low * EvAtr(loc)[2]
        <= Entry(loc) * EvAtr(loc)[2] - EvAtr(loc)[1] * config.stop_loss_factor
TouchesAny(j, loc) == TouchesSomeTP(j, loc) \/ TouchesSL(j, loc)

WalkWindow(loc) == {j \in loc + 1 .. loc + config.time_limit : j <= NBars - 1}
HasTouch(loc) == \E j \in WalkWindow(loc) : TouchesAny(j, loc)
FirstTouch(loc) ==
    CHOOSE j \in WalkWindow(loc) :
        TouchesAny(j, loc) /\ \A i \in WalkWindow(loc) : i < j => ~TouchesAny(i, loc)
HighestLevel(j, loc) ==
    CHOOSE l \in Levels : TouchesTP(j, loc, l) /\ \A m \in Levels : TouchesTP(j, loc, m) => m <= l
Peak(loc, j) ==
    CHOOSE h \in {InBars[i].high : i \in loc .. j} : \A i \in loc .. j : InBars[i].high <= h

\* the event of entry i of the result is decided by a take-profit / by the stop
TakeProfitFirst(loc) ==
    EvDefined(loc) /\ HasTouch(loc) /\ TouchesSomeTP(FirstTouch(loc), loc)
StopFirst(loc) ==
    EvDefined(loc) /\ HasTouch(loc) /\ ~TouchesSomeTP(FirstTouch(loc), loc)
ThresholdInRange == 0 <= config.drawdown_threshold[1]
                    /\ config.drawdown_threshold[1] <= config.drawdown_threshold[2]
Finished == pc = "done"

\* C1: when the first touched bar of the walk reaches a take-profit level, the
\* label is the highest level reached on that bar, also when the same bar's
\* low is at or below the stop level.
C1_TakeProfitWins ==
    Finished =>
        \A i \in DOMAIN labels :
            LET loc == LocOfTs(labels[i].ts)
            IN  TakeProfitFirst(loc) => labels[i].val = HighestLevel(FirstTouch(loc), loc)

C1_Witness ==
    /\ Finished
    /\ \E i \in DOMAIN labels :
          LET loc == LocOfTs(labels[i].ts)
          IN  /\ TakeProfitFirst(loc)
              /\ TouchesSL(FirstTouch(loc), loc)
              /\ labels[i].val >= 1

\* C2: a stop-loss exit whose peak high (event bar through stop bar) is not
\* above the entry price is labeled -1 for every drawdown_threshold in 0..1.
C2_CleanLossAtEveryThreshold ==
    Finished =>
        \A i \in DOMAIN labels :
            LET loc == LocOfTs(labels[i].ts)
            IN  (StopFirst(loc) /\ ThresholdInRange
                 /\ Peak(loc, FirstTouch(loc)) <= Entry(loc))
                => labels[i].val = -1

\* C3: a stop-loss exit whose peak high is above the entry price is labeled 0
\* when (peak - low of the stop bar) / (peak - entry) >= drawdown_threshold,
\* and -1 otherwise.
C3_DrawdownFilter ==
    Finished =>
        \A i \in DOMAIN labels :
            LET loc == LocOfTs(labels[i].ts)
                j == FirstTouch(loc)
                peak == Peak(loc, j)
                dd == config.drawdown_threshold
            IN  (StopFirst(loc) /\ peak > Entry(loc))
                => labels[i].val =
                     IF (peak - InBars[j].low) * dd[2] >= dd[1] * (peak - Entry(loc))
                     THEN 0 ELSE -1

C3_Witness ==
    /\ Finished
    /\ \E i \in DOMAIN labels :
          LET loc == LocOfTs(labels[i].ts)
          IN  /\ StopFirst(loc)
              /\ Peak(loc, FirstTouch(loc)) > Entry(loc)
              /\ labels[i].val = -1

C5_SkippedEventHasNoEntry ==
    Finished =>
        \A n \in DOMAIN t_events :
            (TsInIndex(t_events[n]) /\ ~EvDefined(LocOfTs(t_events[n])))
            => \A i \in DOMAIN labels : labels[i].ts # t_events[n]

\* C6: the returned mapping has at most one entry per timestamp and its keys
\* are input event timestamps that exist in the bar index; every event the
\* loop looks up in the table is in its index, so no lookup fails.
C6_KeysAreDistinctIndexedEvents ==
    /\ Finished =>
          /\ \A i, j \in DOMAIN labels : labels[i].ts = labels[j].ts => i = j
          /\ \A i \in DOMAIN labels :
                labels[i].ts \in Range(t_events) /\ TsInIndex(labels[i].ts)
    /\ (pc = "loop" /\ k <= Len(valid_events)) => TsInIndex(valid_events[k])

C6_Witness ==
    /\ Finished
    /\ Len(labels) = 1
    /\ \E m, n \in DOMAIN t_events : m # n /\ t_events[m] = t_events[n]

\* The label an event gets from the bars and the configuration alone.
AloneLabel(loc) ==
    IF ~EvDefined(loc) \/ ~HasTouch(loc) THEN 0
    ELSE LET j == FirstTouch(loc)
             peak == Peak(loc, j)
             dd == config.drawdown_threshold
         IN  IF TouchesSomeTP(j, loc) THEN HighestLevel(j, loc)
             ELSE IF peak > Entry(loc)
                  THEN (IF (peak - InBars[j].low) * dd[2] >= dd[1] * (peak - Entry(loc))
                        THEN 0 ELSE -1)
                  ELSE (IF dd[1] <= 0 THEN 0 ELSE -1)

\* C7: a second call with the same arguments returns the same mapping, the
\* label of an event is the one it gets alone (it does not depend on the
\* other events), and the caller's table and event series are left as passed.
C7_PureFunction ==
    /\ Len(returned) = 2 => returned[1] = returned[2]
    /\ Finished => \A i \in DOMAIN labels : labels[i].val = AloneLabel(LocOfTs(labels[i].ts))
    /\ "atr" \notin heap["prices"].cols

C7_Witness ==
    /\ Len(returned) = 2
    /\ Len(labels) = 2
    /\ labels[1].val # 0
    /\ labels[2].val # 0
    /\ labels[1].val # labels[2].val

\* C8: scenario 'TP 1 Hit' of the test: the event at bar 10 (timestamp 11) of
\* the fixture with high=111 on bar 15 is labeled 1.
C8_ScenarioTP1 ==
    (Finished /\ config = ScenarioConfig /\ heap["prices"] = ScenarioTable("tp1"))
    => \E i \in DOMAIN labels : labels[i].ts = 11 /\ labels[i].val = 1

\* ============================================== claims: the zone detector
ZRows == df_res.rows
ZoneIds == {ZRows[p].zone_id : p \in DOMAIN ZRows} \ {NA}
ZoneBars(id) == {p \in DOMAIN ZRows : ZRows[p].zone_id = id}
Contiguous(S) == \A p, q \in S : \A m \in p .. q : m \in S

\* C9: every detected zone (the bars sharing one zone_id) is a contiguous run
\* of at least min_zone_bars bars, and a bar is marked in_zone exactly when it
\* belongs to one.
C9_ZoneMinimumLength ==
    z_pc # "idle" =>
        /\ \A id \in ZoneIds :
              /\ Contiguous(ZoneBars(id))
              /\ Cardinality(ZoneBars(id)) >= z_config.min_zone_bars
        /\ \A p \in DOMAIN ZRows :
              ZRows[p].in_accumulation_zone <=> ZRows[p].zone_id \in ZoneIds

\* a zone closed by a tolerance violation and a zone closed by the series end
C9_Witness ==
    /\ z_pc = "done"
    /\ ZoneIds = {0, 1}
    /\ ZRows[NRows(df_res) - 1].zone_id = 1

\* ========================================== claims: the key-candle detector
KRows == k_df.rows

\* a raw candidate: volume above the trailing quantile and body_percentage
\* below the threshold
RawCandidate(p) ==
    LET r == KRows[p]
        bt == k_args.body_percentile_threshold
    IN  /\ r.volume_threshold[2] # 0
        /\ r.volume * r.volume_threshold[2] > r.volume_threshold[1]
        /\ r.body_percentage[1] * bt[2] < bt[1] * r.body_percentage[2]

RunStart(p) == RawCandidate(p) /\ (p = 0 \/ ~RawCandidate(p - 1))

\* C10: of every maximal run of consecutive raw candidates exactly the first
\* bar is flagged is_key_candle; no other bar is flagged, and no two adjacent
\* bars are both flagged.
C10_KeyCandleDedup ==
    k_pc = "done" =>
        /\ \A p \in DOMAIN KRows : KRows[p].is_key_candle <=> RunStart(p)
        /\ \A p \in DOMAIN KRows :
              (p > 0 /\ KRows[p].is_key_candle) => ~KRows[p - 1].is_key_candle

\* a run of three candidates
C10_Witness ==
    /\ k_pc = "done"
    /\ \E p \in DOMAIN KRows :
          /\ p + 2 \in DOMAIN KRows
          /\ RunStart(p) /\ RawCandidate(p + 1) /\ RawCandidate(p + 2)
          /\ KRows[p].is_key_candle
          /\ ~KRows[p + 1].is_key_candle /\ ~KRows[p + 2].is_key_candle

\* ============================================ claims: combiner and scorer
CRows == c_res.rows
SRows == s_res.rows

\* C11: is_triple_coincidence is true only on bars whose is_key_candle is
\* true in the table passed to detect; bars of the window or of a zone are
\* not marked.
C11_OnlyKeyCandlesMarked ==
    c_pc \in {"loop", "done", "raised"} =>
        \A p \in DOMAIN CRows :
            CRows[p].is_triple_coincidence =>
                c_df.rows[p].is_key_candle /\ CRows[p].is_key_candle

\* a marked key candle outside the zone, with an unmarked zone bar that is not
\* a key candle in its window
C11_Witness ==
    /\ c_pc = "done"
    /\ \E p \in DOMAIN CRows :
          /\ CRows[p].is_triple_coincidence
          /\ ~CRows[p].in_accumulation_zone
          /\ \E q \in DOMAIN CRows :
                /\ q < p /\ q >= p - c_self.tolerance
                /\ CRows[q].in_accumulation_zone
                /\ ~CRows[q].is_key_candle
                /\ ~CRows[q].is_triple_coincidence

\* C17: after score, final_score is a number exactly on the bars with
\* is_triple_coincidence, and NaN on every other bar.
C17_ScoreOnlyOnSignals ==
    s_pc = "done" =>
        \A p \in DOMAIN SRows :
            (~IsNaN(SRows[p].final_score) /\ ~IsNA(SRows[p].final_score))
                <=> SRows[p].is_triple_coincidence

\* a signal whose score is the number 0 next to a bar without a score
C17_Witness ==
    /\ s_pc = "done"
    /\ \E p, q \in DOMAIN SRows :
          /\ SRows[p].is_triple_coincidence
          /\ SRows[p].final_score[1] = 0 /\ SRows[p].final_score[2] > 0
          /\ ~SRows[q].is_triple_coincidence
          /\ IsNaN(SRows[q].final_score)

\* ================================================ claims: trend detector
TRows == t_res.rows
TrendIds == {TRows[p].trend_id : p \in DOMAIN TRows} \ {NA}
TrendBars(id) == {p \in DOMAIN TRows : TRows[p].trend_id = id}

\* C12: on a table of at least two bars, whatever the zigzag returns, every
\* bar has a trend_id, the bars of a trend_id are a contiguous run between
\* two consecutive pivots, and the first and last bar are segment boundaries.
C12_TrendSegmentsPartition ==
    (t_pc = "done" /\ NRows(t_df) >= 2) =>
        /\ \A p \in DOMAIN TRows : TRows[p].trend_id # NA
        /\ pivot_indices[1] = 0
        /\ pivot_indices[Len(pivot_indices)] = NRows(t_df) - 1
        /\ \A id \in TrendIds :
              /\ Contiguous(TrendBars(id))
              /\ \E i \in 1 .. Len(pivot_indices) - 1 :
                    \A p \in TrendBars(id) :
                        pivot_indices[i] <= p /\ p <= pivot_indices[i + 1]
        /\ \A p, q \in DOMAIN TRows : p <= q => TRows[p].trend_id <= TRows[q].trend_id

\* the zigzag gives an inner pivot only: three pivots, two segments
C12_Witness ==
    /\ t_pc = "done"
    /\ NRows(t_df) >= 3
    /\ 0 \notin zigzag_series
    /\ NRows(t_df) - 1 \notin zigzag_series
    /\ Cardinality(zigzag_series) = 1
    /\ Cardinality(TrendIds) = 2

\* ================================================== claims: idempotence
\* C13: a detector applied to the table it returned gives the same
\* in_accumulation_zone / zone_id, is_key_candle and is_triple_coincidence
\* flags as its first application.
C13_DetectorsIdempotent ==
    /\ (z_pc = "done" /\ z_first # NoFrame) =>
          \A p \in DOMAIN df_res.rows :
              /\ df_res.rows[p].in_accumulation_zone = z_first.rows[p].in_accumulation_zone
              /\ df_res.rows[p].zone_id = z_first.rows[p].zone_id
    /\ (k_pc = "done" /\ k_first # NoFrame) =>
          \A p \in DOMAIN k_df.rows :
              k_df.rows[p].is_key_candle = k_first.rows[p].is_key_candle
    /\ (c_pc = "done" /\ c_first # NoFrame) =>
          \A p \in DOMAIN c_res.rows :
              c_res.rows[p].is_triple_coincidence = c_first.rows[p].is_triple_coincidence

\* the second application of the key-candle detector has returned, on a table
\* where the first flagged the head of a run of two candidates
C13_Witness ==
    /\ k_pc = "done"
    /\ k_first # NoFrame
    /\ \E p \in DOMAIN k_df.rows :
          /\ p + 1 \in DOMAIN k_df.rows
          /\ k_first.rows[p].is_key_candle
          /\ is_potential_key_candle[p + 1]

\* ======================================================= claims: purity
\* C14: a detector leaves the table it was passed as it was: the columns it
\* computes appear only in the table it returns.  Stated here for
\* KeyCandleDetector.detect, whose argument is k_df.
C14_KeyCandleInputUnchanged == k_df.cols \subseteq ZoneCols

\* ================================================= claims: orchestrator
ORows == o_ret.rows
Partition == {r \in klines : r.symbol = o_args.symbol /\ r.interval = o_args.interval}
Stored(r) == [c \in KlinesCols |-> r[c]]
PipelineCols ==
    {"in_accumulation_zone", "zone_id", "trend_id", "trend_r_squared",
     "is_key_candle", "is_triple_coincidence", "final_score"}

\* C15: for a non-empty partition the returned table carries the columns of
\* the zone detector, the trend detector, the key-candle detector, the
\* combiner and the scorer.
C15_WholePipelineRuns ==
    (o_pc = "done" /\ Partition # {}) => PipelineCols \subseteq o_ret.cols

\* C16: the returned rows are exactly the stored rows of the partition, in
\* ascending open_time order, each flagged as the key-candle detector flags
\* it; an empty partition is returned empty and no detector is applied.
C16_PartitionWithKeyCandles ==
    o_pc = "done" =>
        /\ NRows(o_ret) = Cardinality(Partition)
        /\ \A p \in DOMAIN ORows : Stored(ORows[p]) \in Partition
        /\ \A p, q \in DOMAIN ORows :
              p < q => ORows[p].open_time < ORows[q].open_time
        /\ Partition # {} =>
              \A p \in DOMAIN ORows :
                  /\ ORows[p].is_key_candle \in BOOLEAN
                  /\ ORows[p].is_key_candle = RunStart(p)
        /\ Partition = {} =>
              /\ "is_key_candle" \notin o_ret.cols
              /\ k_pc = "idle" /\ k_df = NoFrame

\* a partition with a key candle, returned without the stored row of another
\* interval
C16_Witness ==
    /\ o_pc = "done"
    /\ \E p \in DOMAIN ORows : ORows[p].is_key_candle
    /\ \E r \in klines : r.symbol = o_args.symbol /\ r.interval # o_args.interval

\* ================================================== claims: data store
\* C18: the table holds at most one row per (symbol, interval, open_time); a
\* stored row is never removed or altered by a later call; and a call with a
\* list of files that an earlier call has processed leaves the table as it is.
C18_StoreIdempotentImmutable ==
    /\ [](\A r, q \in klines : PrimaryKey(r) = PrimaryKey(q) => r = q)
    /\ [][klines \subseteq klines']_vars
    /\ [][(p_pc = "parsed" /\ p_pc' = "idle"
             /\ \E i \in DOMAIN p_done : p_done[i] = file_paths)
          => klines' = klines]_vars

\* a file is processed, then twice a file that gives other prices for a
\* stored open_time: the stored row still has the prices of the first file
C18_Witness ==
    /\ Len(p_done) = 3
    /\ p_done[2] = p_done[3]
    /\ \E r \in klines :
          /\ \E i \in DOMAIN p_done[1] : \E j \in DOMAIN p_done[1][i].lines :
                /\ p_done[1][i].exists
                /\ r = ParseKlines(p_done[1][i])[j]
          /\ \E i \in DOMAIN p_done[2] : \E j \in DOMAIN p_done[2][i].lines :
                /\ p_done[2][i].exists
                /\ PrimaryKey(ParseKlines(p_done[2][i])[j]) = PrimaryKey(r)
                /\ ParseKlines(p_done[2][i])[j] # r

\* ================================================ claims: zone open and close
\* the highest high and the lowest low of the bars a .. b of the scanned table
RECURSIVE EnvelopeHigh(_, _)
EnvelopeHigh(a, b) ==
    IF a = b THEN df_res.rows[a].high
    ELSE LET rest == EnvelopeHigh(a, b - 1)
         IN  IF df_res.rows[b].high > rest THEN df_res.rows[b].high ELSE rest

RECURSIVE EnvelopeLow(_, _)
EnvelopeLow(a, b) ==
    IF a = b THEN df_res.rows[a].low
    ELSE LET rest == EnvelopeLow(a, b - 1)
         IN  IF df_res.rows[b].low < rest THEN df_res.rows[b].low ELSE rest

\* max high - min low over a .. b is above the ATR at bar ref times atr_multiplier
EnvelopeAbove(a, b, ref) ==
    (EnvelopeHigh(a, b) - EnvelopeLow(a, b)) * z_atr(ref)[2] * z_config.atr_multiplier[2]
        > z_atr(ref)[1] * z_config.atr_multiplier[1]

\* the scan is at a bar whose indicators are both ready
AtReadyBar == z_pc = "scan" /\ zi < NRows(df_res) /\ z_ready

\* C19: a ready bar processed while no zone is open opens a zone starting at
\* itself if and only if its volume >= volume_ma * volume_threshold.
C19_ZoneOpensAtVolumeThreshold ==
    [][(AtReadyBar /\ ~in_zone)
       => ((in_zone' /\ zone_start_idx' = zi)
           <=> z_candle.volume * z_volume_ma(zi)[2] * z_config.volume_threshold[2]
                 >= z_volume_ma(zi)[1] * z_config.volume_threshold[1])]_vars

\* C20: a ready bar processed while a zone is open closes the zone if and only
\* if max high - min low over the zone's bars, the current one included, is above
\* the ATR at the zone's start bar times atr_multiplier.
C20_ZoneToleranceFixedAtStart ==
    [][(AtReadyBar /\ in_zone)
       => (~(in_zone' /\ zone_start_idx' = zone_start_idx)
           <=> EnvelopeAbove(zone_start_idx, zi, zone_start_idx))]_vars

\* a zone has been extended by a bar whose own ATR differs from the ATR at the
\* zone's start and would have closed the zone had it been the reference
C20_Witness ==
    /\ z_pc = "scan"
    /\ in_zone
    /\ zi >= zone_start_idx + 2
    /\ z_atr(zi - 1) # z_atr(zone_start_idx)
    /\ EnvelopeAbove(zone_start_idx, zi - 1, zi - 1)
    /\ ~EnvelopeAbove(zone_start_idx, zi - 1, zone_start_idx)
    /\ zone_high = EnvelopeHigh(zone_start_idx, zi - 1)
    /\ zone_low = EnvelopeLow(zone_start_idx, zi - 1)

\* ============================================ claims: zone close and reopen
\* the table after the bars a .. b have been given the zone id
MarkedAs(rows, a, b, id) ==
    [p \in DOMAIN rows |->
        IF a <= p /\ p <= b
        THEN [rows[p] EXCEPT !.in_accumulation_zone = TRUE, !.zone_id = id]
        ELSE rows[p]]

\* the scan is at a ready bar that takes the open zone above its tolerance
AtBreakingBar ==
    AtReadyBar /\ in_zone /\ EnvelopeAbove(zone_start_idx, zi, zone_start_idx)

\* C21: while a zone is open its envelope is that of the bars zone_start ..
\* i - 1; when bar i takes the height above the tolerance, the bars
\* zone_start .. i - 1 get a zone id not used before if and only if they are at
\* least min_zone_bars, bar i and every other bar keep their marks, and
\* otherwise no bar is marked.
C21_ZoneClosesAtPreviousBar ==
    /\ []((z_pc = "scan" /\ in_zone) =>
            /\ zone_start_idx < zi
            /\ zone_high = EnvelopeHigh(zone_start_idx, zi - 1)
            /\ zone_low = EnvelopeLow(zone_start_idx, zi - 1))
    /\ [][AtBreakingBar =>
            IF zi - zone_start_idx >= z_config.min_zone_bars
            THEN /\ \A p \in DOMAIN ZRows : ZRows[p].zone_id # zone_id_counter
                 /\ df_res'.rows = MarkedAs(ZRows, zone_start_idx, zi - 1, zone_id_counter)
                 /\ zone_id_counter' = zone_id_counter + 1
            ELSE /\ df_res' = df_res
                 /\ zone_id_counter' = zone_id_counter]_vars

\* a zone of exactly min_zone_bars bars has just been closed by the bar after
\* it, which carries no mark
C21_Witness ==
    /\ z_pc = "scan"
    /\ zi >= 1 + z_config.min_zone_bars
    /\ zone_id_counter >= 1
    /\ ZoneBars(zone_id_counter - 1) = (zi - 1 - z_config.min_zone_bars) .. (zi - 2)
    /\ ZRows[zi - 1].zone_id = NA
    /\ ~ZRows[zi - 1].in_accumulation_zone

\* C22: a bar that takes the open zone above its tolerance and whose volume
\* surges opens a zone starting at itself with its own high and low as the
\* envelope; a zone is open exactly when zone_start_idx names a scanned bar.
C22_BreakingBarReopens ==
    /\ [](z_pc # "idle" =>
            IF in_zone THEN zone_start_idx \in 0 .. zi - 1 ELSE zone_start_idx = -1)
    /\ [][(AtBreakingBar
            /\ z_candle.volume * z_volume_ma(zi)[2] * z_config.volume_threshold[2]
                 > z_volume_ma(zi)[1] * z_config.volume_threshold[1])
          => /\ in_zone'
             /\ zone_start_idx' = zi
             /\ zone_high' = ZRows[zi].high
             /\ zone_low' = ZRows[zi].low
             /\ zi' = zi + 1]_vars

\* a zone was materialised up to bar i - 2 and the bar that closed it, i - 1,
\* is the start of the zone now open
C22_Witness ==
    /\ z_pc = "scan"
    /\ in_zone
    /\ zi >= 2
    /\ zone_start_idx = zi - 1
    /\ zone_id_counter >= 1
    /\ ZRows[zi - 2].zone_id = zone_id_counter - 1
    /\ zone_high = ZRows[zi - 1].high
    /\ zone_low = ZRows[zi - 1].low

\* C23: after the last bar a zone still open is given the bars zone_start ..
\* last bar and the next zone id if and only if these are at least
\* min_zone_bars; otherwise no mark changes.
C23_OpenZoneClosedAtEnd ==
    [][(z_pc = "scan" /\ zi = NRows(df_res))
        => /\ z_pc' = "done"
           /\ df_res'.rows =
                IF in_zone /\ NRows(df_res) - zone_start_idx >= z_config.min_zone_bars
                THEN MarkedAs(ZRows, zone_start_idx, NRows(df_res) - 1, zone_id_counter)
                ELSE ZRows]_vars

\* the series ended with an open zone of exactly min_zone_bars bars, now marked
C23_Witness ==
    /\ z_pc = "done"
    /\ in_zone
    /\ NRows(df_res) - zone_start_idx = z_config.min_zone_bars
    /\ ZoneBars(zone_id_counter) = zone_start_idx .. NRows(df_res) - 1

\* C30: in the returned table a bar is in_zone exactly when it has a zone id,
\* the ids are 0, 1, 2, ... without gaps, every bar of a zone lies before
\* every bar of a zone with a larger id, and a mark once given never changes.
C30_ZoneIdsOrdered ==
    /\ [](z_pc = "done" =>
            /\ \A p \in DOMAIN ZRows :
                  ZRows[p].in_accumulation_zone <=> ZRows[p].zone_id # NA
            /\ ZoneIds = 0 .. Cardinality(ZoneIds) - 1
            /\ \A p, q \in DOMAIN ZRows :
                  (p < q /\ ZRows[p].zone_id # NA /\ ZRows[q].zone_id # NA)
                      => ZRows[p].zone_id <= ZRows[q].zone_id)
    /\ [][\A p \in DOMAIN ZRows :
            ZRows[p].zone_id # NA => df_res'.rows[p] = ZRows[p]]_vars

\* two zones side by side: the last bar of zone 0 is followed by the first of
\* zone 1, and a bar before them is in no zone
C30_Witness ==
    /\ z_pc = "done"
    /\ ZoneIds = {0, 1}
    /\ \E p \in DOMAIN ZRows :
          /\ p >= 1
          /\ p + 1 \in DOMAIN ZRows
          /\ ZRows[p].zone_id = 0
          /\ ZRows[p + 1].zone_id = 1
    /\ ZRows[0].zone_id = NA

\* ============================================ claims: the triple coincidence
\* the trend quality of a row is a number and at least min_r_squared
QualityAtLeast(r2, mr) == r2[2] # 0 /\ r2[1] * mr[2] >= mr[1] * r2[2]

\* a bar among the tolerance bars before p, or p itself, is in a zone
ZoneInWindow(rows, p, tol) ==
    \E q \in DOMAIN rows :
        /\ q <= p
        /\ q >= p - tol
        /\ rows[q].in_accumulation_zone

\* the trend quality of a row is missing
QualityMissing(r2) == r2[2] = 0

\* C24: in the table SignalCombiner.detect returns, a bar is a triple
\* coincidence if and only if it is a key candle, a bar at positions
\* max(0, i - tolerance) .. i is in a zone, and its trend_r_squared >=
\* min_r_squared.
C24_TripleCoincidenceRule ==
    c_pc = "done" =>
        \A p \in DOMAIN CRows :
            CRows[p].is_triple_coincidence
                <=> /\ c_df.rows[p].is_key_candle
                    /\ ZoneInWindow(c_df.rows, p, c_self.tolerance)
                    /\ QualityAtLeast(c_df.rows[p].trend_r_squared, c_self.min_r_squared)

\* a marked key candle outside every zone, whose only zone bar in the window
\* is the one tolerance bars back, with a trend quality equal to the minimum
C24_Witness ==
    /\ c_pc = "done"
    /\ \E p \in DOMAIN CRows :
          /\ CRows[p].is_triple_coincidence
          /\ ~CRows[p].in_accumulation_zone
          /\ p - c_self.tolerance \in DOMAIN CRows
          /\ \A q \in DOMAIN CRows :
                (q <= p /\ q >= p - c_self.tolerance /\ CRows[q].in_accumulation_zone)
                    => q = p - c_self.tolerance
          /\ CRows[p].trend_r_squared[1] * c_self.min_r_squared[2]
                = c_self.min_r_squared[1] * CRows[p].trend_r_squared[2]

\* C25: detect completes on every table, and in its result a key candle with a
\* missing trend_r_squared is not a triple coincidence, also with a zone bar
\* in its window.
C25_MissingQualityCompletes ==
    /\ c_pc # "raised"
    /\ c_pc = "done" =>
          \A p \in DOMAIN CRows :
              (c_df.rows[p].is_key_candle /\ QualityMissing(c_df.rows[p].trend_r_squared))
                  => ~CRows[p].is_triple_coincidence

\* ======================================================= claims: the score
\* the number of bars that share the zone id of bar p (0 without a zone id)
ZoneSize(p) ==
    IF SRows[p].zone_id = NA THEN 0
    ELSE Cardinality({q \in DOMAIN SRows : SRows[q].zone_id = SRows[p].zone_id})

\* clamp((n - 5) / 45, 0, 1), and 0 for a bar without a zone id
ZoneSizeScore(p) ==
    IF SRows[p].zone_id = NA \/ ZoneSize(p) <= 5 THEN <<0, 1>>
    ELSE IF ZoneSize(p) >= 50 THEN <<1, 1>>
    ELSE <<ZoneSize(p) - 5, 45>>

\* 0.5 * z + 0.5 * r2 as a fraction
HalfAndHalf(z, r2) == <<z[1] * r2[2] + r2[1] * z[2], 2 * z[2] * r2[2]>>

SameReal(a, b) == a[2] # 0 /\ b[2] # 0 /\ a[1] * b[2] = b[1] * a[2]

\* C26: after score every triple coincidence has final_score = 0.5 * z + 0.5 *
\* trend_r_squared, z the clamped size score of its own zone and 0 without a
\* zone id, and the score lies in [0, 1].
C26_FinalScoreFormula ==
    s_pc = "done" =>
        \A p \in DOMAIN SRows :
            SRows[p].is_triple_coincidence =>
                /\ SameReal(SRows[p].final_score,
                            HalfAndHalf(ZoneSizeScore(p), SRows[p].trend_r_squared))
                /\ SRows[p].final_score[1] >= 0
                /\ SRows[p].final_score[1] <= SRows[p].final_score[2]

\* a signal in a zone of more than 5 and fewer than 50 bars, scored strictly
\* between half its trend quality and that plus one half
C26_Witness ==
    /\ s_pc = "done"
    /\ \E p \in DOMAIN SRows :
          /\ SRows[p].is_triple_coincidence
          /\ ZoneSize(p) > 5 /\ ZoneSize(p) < 50
          /\ SRows[p].trend_r_squared = <<1, 2>>
          /\ 4 * SRows[p].final_score[1] > SRows[p].final_score[2]
          /\ 4 * SRows[p].final_score[1] < 3 * SRows[p].final_score[2]

\* ============================================= claims: the trend segments
\* C27: in the returned table every bar of the segment between pivots i and
\* i + 1, both pivot bars included, carries trend_id i and the slope and R2
\* of the regression over that segment.
C27_SegmentBarsCarrySegmentFit ==
    (t_pc = "done" /\ t_ret = "df_res") =>
        \A i \in 1 .. Len(pivot_indices) - 1 :
            \A p \in pivot_indices[i] .. pivot_indices[i + 1] :
                /\ TRows[p].trend_id = i - 1
                /\ TRows[p].trend_slope
                     = Slope(t_df.rows, pivot_indices[i], pivot_indices[i + 1])
                /\ TRows[p].trend_r_squared
                     = RSquared(t_df.rows, pivot_indices[i], pivot_indices[i + 1])

\* ======================================== claims: the first touch decides
\* C28: the label of an event is decided by the first bar of the walk window
\* that touches a barrier: the highest take-profit level reached on that bar
\* if it reaches one, otherwise the stop outcome (-1 or 0), whatever the later
\* bars of the window do.
C28_FirstTouchDecides ==
    Finished =>
        \A i \in DOMAIN labels :
            LET loc == LocOfTs(labels[i].ts)
            IN  (EvDefined(loc) /\ HasTouch(loc)) =>
                    IF TouchesSomeTP(FirstTouch(loc), loc)
                    THEN labels[i].val = HighestLevel(FirstTouch(loc), loc)
                    ELSE labels[i].val \in {-1, 0}

\* an event stopped on a bar that is followed, inside the window, by a bar
\* reaching a take-profit
C28_Witness ==
    /\ Finished
    /\ \E i \in DOMAIN labels :
          LET loc == LocOfTs(labels[i].ts)
          IN  /\ StopFirst(loc)
              /\ \E j \in WalkWindow(loc) : j > FirstTouch(loc) /\ TouchesSomeTP(j, loc)
              /\ labels[i].val \in {-1, 0}

\* C29: with drawdown_threshold <= 1, a stop-loss exit whose peak high (event
\* bar through stop bar) is above the entry price is labeled 0, and a label -1
\* is a stop-loss exit with no high above the entry price on those bars.
C29_GainThenStopIsNeutral ==
    (Finished /\ config.drawdown_threshold[1] <= config.drawdown_threshold[2]) =>
        \A i \in DOMAIN labels :
            LET loc == LocOfTs(labels[i].ts)
            IN  /\ (StopFirst(loc) /\ Peak(loc, FirstTouch(loc)) > Entry(loc))
                    => labels[i].val = 0
                /\ labels[i].val = -1
                    => /\ StopFirst(loc)
                       /\ \A j \in loc .. FirstTouch(loc) : InBars[j].high <= Entry(loc)

\* threshold 1: a stop-loss exit with a peak above the entry, labeled 0
C29_Witness ==
    /\ Finished
    /\ config.drawdown_threshold = <<1, 1>>
    /\ \E i \in DOMAIN labels :
          LET loc == LocOfTs(labels[i].ts)
          IN  /\ StopFirst(loc)
              /\ Peak(loc, FirstTouch(loc)) > Entry(loc)
              /\ labels[i].val = 0
====
